---- MODULE Spec2Model ----
(***************************************************************************)
(* testingdock: the dependency-ordered lifecycle of a docker network and   *)
(* its containers (start / reset / close), the ownership-guarded cleanup   *)
(* and the suite registry.                                                 *)
(*                                                                         *)
(* Goroutines are threads with a stack of frames.  Thread 0 is the test    *)
(* goroutine; the goroutine spawned for child container c is thread c.     *)
(* Every engine call is one step.  testing.TB.Fatalf ends the calling      *)
(* goroutine (runtime.Goexit, deferred calls run); a call of a nil func    *)
(* value panics and ends the process.                                      *)
(***************************************************************************)
EXTENDS Naturals, Sequences, FiniteSets

\* bounds of the model
MaxOps == 3
MaxRegOps == 3
MaxFail == 1
MaxHcFail == 2
HcTimeout == 4
MaxAfter == 2
MaxCancel == 1
MaxTasks == 1

\* the container objects, the network objects and the goroutines
Containers == {1, 2, 3}
NetObjs == {1, 2}
Tids == {0} \cup Containers
SuiteNames == {"s1", "s2"}
SuiteIds == {1, 2, 3}

VARIABLES
    registry,        \* suite name -> suite (0: not registered)
    suites,          \* the Suite objects
    SpawnSequential, \* the process-wide flag
    Verbose,         \* the process-wide flag of verbose logging
    cfg,             \* ContainerOpts of each container
    net,             \* the Network objects
    cont,            \* the Container objects
    engine,          \* the docker daemon: networks, containers, images, next id
    failBudget,      \* engine call failures still to come
    th,              \* goroutine -> stack of frames (top is the last element)
    thParent,        \* goroutine -> the goroutine whose WaitGroup counts it
    crashed,         \* the process panicked
    failed,          \* Fatalf was called in the current harness call
    ops,             \* harness calls made so far
    regBudget,       \* registry calls still to come
    afterBudget,     \* After calls still to come
    ctxDone,         \* the contexts that are cancelled or have expired
    testBudget,      \* context cancellations and concurrent registry calls to come
    cur,             \* the harness call in progress or last made
    obs,             \* what the current harness call did, per node
    hist             \* what the harness calls so far did

vars == <<registry, suites, SpawnSequential, Verbose, cfg, net, cont, engine, failBudget,
          th, thParent, crashed, failed, ops, regBudget, afterBudget,
                   ctxDone, testBudget, cur, obs, hist>>

-----------------------------------------------------------------------------
\* helpers.go

\* variant: every resource is taken to be owned
isOwnedAlways(labels) == TRUE

isOwnedByTestingdock(labels) == "owner=testingdock" \in labels

createTestingLabel == {"owner=testingdock"}

-----------------------------------------------------------------------------
\* frames

Frame(op, node) ==
    [op |-> op, node |-> node, pc |-> "begin", i |-> 1,
     todo |-> {}, todo2 |-> {}, nn |-> 0, wg |-> 0, clock |-> 0, polls |-> 0]

Top(stk) == stk[Len(stk)]
Pop(stk) == SubSeq(stk, 1, Len(stk) - 1)
SetTop(stk, f) == [stk EXCEPT ![Len(stk)] = f]
Push(stk, f) == Append(stk, f)

Running(t) == th[t] # <<>>
At(t, op, pc) == Running(t) /\ Top(th[t]).op = op /\ Top(th[t]).pc = pc

\* wg.Done() of goroutine t, deferred in the go func: its parent's top frame waits
WgDone(thx, t) ==
    IF t = 0 THEN thx
    ELSE LET p == thParent[t] IN
         [thx EXCEPT ![p] = SetTop(@, [Top(@) EXCEPT !.wg = @ - 1])]

\* the top frame of t returns
RetTh(t) ==
    LET popped == [th EXCEPT ![t] = Pop(@)]
    IN IF popped[t] = <<>> THEN WgDone(popped, t) ELSE popped

\* variant: Fatalf returns from the function that called it
FatalThReturns(t) == RetTh(t)

\* t.Fatalf on goroutine t: runtime.Goexit unwinds the whole stack
FatalTh(t) == WgDone([th EXCEPT ![t] = <<>>], t)

\* the top frame of t moves on
GoTh(t, f) == [th EXCEPT ![t] = SetTop(@, f)]

\* the top frame of t calls op on node (synchronously)
CallTh(t, f, op, node) == [th EXCEPT ![t] = Push(SetTop(@, f), Frame(op, node))]

-----------------------------------------------------------------------------
\* the engine (docker daemon): the calls the library makes

ENet(id) == CHOOSE n \in engine.nets : n.id = id
ECont(id) == CHOOSE c \in engine.conts : c.id = id
HasNet(id) == \E n \in engine.nets : n.id = id
HasCont(id) == \E c \in engine.conts : c.id = id

\* NetworkList with a name filter
NetworkList(name) == {n.id : n \in {m \in engine.nets : m.name = name}}

\* ContainerList{All: true}, then the containers with an endpoint in network id
ContainersOfNetwork(id) == {c.id : c \in {d \in engine.conts : d.net = id}}

\* ContainerList with a name filter; the stopped and the never started containers
\* are listed only if All is set
ContainerList(name, all) ==
    {c.id : c \in {d \in engine.conts : d.name = name /\ (all \/ d.running)}}

\* findContainerByName: ContainerListOptions{Filters: name}, All is not set
findContainerByName(name) == ContainerList(name, FALSE)

\* NetworkRemove succeeds on an existing network without endpoints
CanNetworkRemove(id) == HasNet(id) /\ ContainersOfNetwork(id) = {}

\* ContainerCreate fails on a name in use, whatever the state of its holder
CanContainerCreate(name) == \A c \in engine.conts : c.name # name

\* ContainerStart connects to the network named in HostConfig.NetworkMode
CanContainerStart(id, netName) == HasCont(id) /\ NetworkList(netName) # {}

-----------------------------------------------------------------------------
\* what a harness call did (history, read by the properties only)

ObsInit ==
    [began |-> [c \in Containers |-> FALSE],     \* c.start issued an engine call
     cleaned |-> [c \in Containers |-> FALSE],   \* c.start issued the cleanup's listing
     created |-> [c \in Containers |-> FALSE],   \* c.start issued ContainerCreate
     started |-> [c \in Containers |-> FALSE],   \* c.start's ContainerStart succeeded
     pulled |-> {},                              \* containers whose image was pulled
     launched |-> [c \in Containers |-> FALSE],  \* c.start was called or spawned
     ret |-> [c \in Containers |-> FALSE],       \* c.start returned
     healthy |-> [c \in Containers |-> FALSE],   \* c's health check succeeded
     hcRun |-> [c \in Containers |-> FALSE],     \* c's health check began
     polls |-> [c \in Containers |-> 0],         \* invocations of c's predicate
     clock |-> [c \in Containers |-> 0],         \* seconds since c's health check began
     closing |-> [c \in Containers |-> "none"],  \* c.close: none, in, ret, abort
     torn |-> {},                                \* nodes whose teardown issued an engine call
     resetRun |-> [c \in Containers |-> FALSE],  \* c's reset action was invoked
     resetOk |-> [c \in Containers |-> FALSE],   \* c's reset action returned nil
     netCreated |-> FALSE,                       \* Network.start issued NetworkCreate
     netReady |-> FALSE,                         \* network created and inspected
     removed |-> {},                             \* engine ids removed by a cleanup before create
     probe |-> [c \in Containers |->             \* c's last ContainerInspect
                  [fail |-> FALSE, running |-> FALSE]],
     restarted |-> {},                           \* containers restarted by resetRestart
     returned |-> FALSE,                         \* Network.start returned to Suite.Start
     done |-> FALSE,                             \* UnregisterAll ran to its end
     rets |-> {},                                \* <<task, suite, existed>> returned
     fatal |-> {},                               \* <<node kind, node, reason>> of each Fatalf
     calls |-> 0]                                \* engine calls issued

Fails == IF failBudget > 0 THEN {TRUE, FALSE} ELSE {FALSE}
Spend(fail) == failBudget' = IF fail THEN failBudget - 1 ELSE failBudget

Static ==
    UNCHANGED <<registry, suites, SpawnSequential, Verbose, cfg, crashed, ops, regBudget, afterBudget,
                   ctxDone, testBudget, cur, hist>>
StepFrame == Static /\ UNCHANGED thParent

\* the containers whose close is on the stack of goroutine t
ClosingOn(t) ==
    {th[t][k].node : k \in {j \in 1..Len(th[t]) : th[t][j].op = "Container.close"}}

\* Fatalf after a failed engine call
Fatal(t, kind, node, why) ==
    /\ th' = FatalTh(t)
    /\ failed' = TRUE
    /\ obs' = [obs EXCEPT !.fatal = @ \cup {<<kind, node, why>>}, !.calls = @ + 1,
                          !.closing = [c \in Containers |->
                               IF c \in ClosingOn(t) THEN "abort" ELSE @[c]]]

\* a call of a nil func value: the panic ends the process
Panic ==
    /\ crashed' = TRUE
    /\ th' = [u \in Tids |-> <<>>]

\* Fatalf without an engine call
FatalNoCall(t, kind, node, why) ==
    /\ th' = FatalTh(t)
    /\ failed' = TRUE
    /\ obs' = [obs EXCEPT !.fatal = @ \cup {<<kind, node, why>>}]

\* variant: the children are started right after ContainerStart
PcAfterStartSkipsHealthCheck == "kids"

\* Container.start: c.executeHealthCheck(ctx) follows ContainerStart
PcAfterStart == "hc"

\* variant: the children are reset right after c.resetF
PcAfterResetSkipsHealthCheck == "kids"

\* Container.reset: c.executeHealthCheck(ctx) follows c.resetF
PcAfterReset == "hc"

\* variant: the loop goes on after a successful poll
PcAfterPollContinues(ok) == "hc"

\* executeHealthCheck: break InfLoop on success, continue InfLoop on failure
PcAfterPoll(ok) == IF ok THEN "kids" ELSE "hc"

\* variant: the teardown runs again on a closed node
CancelSkippedNever(closed) == FALSE

\* the cancel closures: if c.closed { return }
CancelSkipped(closed) == closed

\* the ctx passed to the harness call in progress: every call of Suite.Start is
\* given a context of its own, named by the number of the call; the contexts
\* that the test has no cancellation left for go by the one name 0
Ctx == IF testBudget.cancel > 0 THEN ops ELSE 0

\* ctx.Err() != nil: an engine call made with ctx k returns that error at once
Cancelled(k) == k \in ctxDone

\* err.Error() of a failed engine call that was made with ctx k
ErrOf(k, why) == IF Cancelled(k) THEN "context canceled" ELSE why

\* variant: the children are ranged over from the last to the first
StartChildBackwards(children, i) == children[Len(children) + 1 - i]

\* for _, cont := range children { cont.start(ctx) }: the i-th child of the slice
StartChild(children, i) == children[i]

-----------------------------------------------------------------------------
\* Network.start and Network.initialCleanup (network.go)

\* initialCleanup: NetworkList with the name filter
NetworkStartList(t) ==
    /\ At(t, "Network.start", "begin")
    /\ LET f == Top(th[t]) n == f.node IN
       \E fail \in Fails :
         /\ Spend(fail)
         /\ IF fail
            THEN Fatal(t, "net", n, "network listing failure")
            ELSE LET found == NetworkList(net[n].name) IN
                 /\ th' = GoTh(t, [f EXCEPT !.todo = found,
                                   !.pc = IF found = {} THEN "create" ELSE "clist"])
                 /\ obs' = [obs EXCEPT !.calls = @ + 1]
                 /\ UNCHANGED failed
    /\ UNCHANGED <<net, cont, engine>>
    /\ StepFrame

\* initialCleanup: for _, nn := range networks: ContainerList{All: true}
NetworkStartContainerList(t) ==
    /\ At(t, "Network.start", "clist")
    /\ LET f == Top(th[t]) n == f.node IN
       \E nn \in f.todo, fail \in Fails :
         /\ Spend(fail)
         /\ IF fail
            THEN Fatal(t, "net", n, "container list failure")
            ELSE LET att == ContainersOfNetwork(nn) IN
                 /\ th' = GoTh(t, [f EXCEPT !.nn = nn, !.todo2 = att,
                                   !.pc = IF att = {} THEN "nrm" ELSE "crm"])
                 /\ obs' = [obs EXCEPT !.calls = @ + 1]
                 /\ UNCHANGED failed
    /\ UNCHANGED <<net, cont, engine>>
    /\ StepFrame

\* initialCleanup: a container attached to nn is removed if it is owned; fatal if not
NetworkStartContainerRemove(t) ==
    /\ At(t, "Network.start", "crm")
    /\ LET f == Top(th[t]) n == f.node IN
       \E cc \in f.todo2, fail \in Fails :
         /\ Spend(fail)
         /\ fail => ~HasCont(cc) \/ isOwnedByTestingdock(ECont(cc).labels)
         /\ IF HasCont(cc) /\ ~isOwnedByTestingdock(ECont(cc).labels)
            THEN FatalNoCall(t, "net", n, "foreign container") /\ UNCHANGED engine
            ELSE IF fail \/ ~HasCont(cc)
            THEN Fatal(t, "net", n, "container removal failure") /\ UNCHANGED engine
            ELSE /\ engine' = [engine EXCEPT !.conts = @ \ {ECont(cc)}]
                 /\ th' = GoTh(t, [f EXCEPT !.todo2 = @ \ {cc},
                                   !.pc = IF f.todo2 = {cc} THEN "nrm" ELSE "crm"])
                 /\ obs' = [obs EXCEPT !.calls = @ + 1,
                                       !.removed = @ \cup {cc}]
                 /\ UNCHANGED failed
    /\ UNCHANGED <<net, cont>>
    /\ StepFrame

\* initialCleanup: nn itself is removed if it is owned; fatal if not
NetworkStartNetworkRemove(t) ==
    /\ At(t, "Network.start", "nrm")
    /\ LET f == Top(th[t]) n == f.node nn == f.nn IN
       \E fail \in Fails :
         /\ Spend(fail)
         /\ fail => ~HasNet(nn) \/ isOwnedByTestingdock(ENet(nn).labels)
         /\ IF HasNet(nn) /\ ~isOwnedByTestingdock(ENet(nn).labels)
            THEN FatalNoCall(t, "net", n, "foreign network") /\ UNCHANGED engine
            ELSE IF fail \/ ~CanNetworkRemove(nn)
            THEN Fatal(t, "net", n, "network removal failure") /\ UNCHANGED engine
            ELSE /\ engine' = [engine EXCEPT !.nets = @ \ {ENet(nn)}]
                 /\ th' = GoTh(t, [f EXCEPT !.todo = @ \ {nn},
                                   !.pc = IF f.todo = {nn} THEN "create" ELSE "clist"])
                 /\ obs' = [obs EXCEPT !.calls = @ + 1,
                                       !.removed = @ \cup {nn}]
                 /\ UNCHANGED failed
    /\ UNCHANGED <<net, cont>>
    /\ StepFrame

\* NetworkCreate with the testingdock label; n.id and n.cancel are set, and the
\* closure keeps the ctx of this start
NetworkStartCreate(t) ==
    /\ At(t, "Network.start", "create")
    /\ LET f == Top(th[t]) n == f.node IN
       \E fail \in Fails :
         /\ Spend(fail)
         /\ IF fail
            THEN /\ th' = FatalTh(t)
                 /\ failed' = TRUE
                 /\ obs' = [obs EXCEPT
                       !.fatal = @ \cup {<<"net", n, "network creation failure">>},
                       !.calls = @ + 1, !.netCreated = TRUE]
                 /\ UNCHANGED <<engine, net>>
            ELSE /\ engine' = [engine EXCEPT
                       !.nets = @ \cup {[id |-> engine.next, name |-> net[n].name,
                                         labels |-> net[n].labels]},
                       !.next = @ + 1]
                 /\ net' = [net EXCEPT ![n].id = engine.next, ![n].cancel = TRUE,
                                       ![n].ctx = Ctx]
                 /\ th' = GoTh(t, [f EXCEPT !.pc = "inspect"])
                 /\ obs' = [obs EXCEPT !.calls = @ + 1, !.netCreated = TRUE]
                 /\ UNCHANGED failed
    /\ UNCHANGED cont
    /\ StepFrame

\* NetworkInspect for the gateway; on failure n.cancel() runs before Fatalf
NetworkStartInspect(t) ==
    /\ At(t, "Network.start", "inspect")
    /\ LET f == Top(th[t]) n == f.node IN
       \E fail \in Fails :
         /\ Spend(fail)
         /\ IF fail \/ ~HasNet(net[n].id)
            THEN /\ engine' = IF ~CancelSkipped(net[n].closed)
                                 /\ CanNetworkRemove(net[n].id)
                              THEN [engine EXCEPT !.nets = @ \ {ENet(net[n].id)}]
                              ELSE engine
                 /\ th' = FatalTh(t)
                 /\ failed' = TRUE
                 /\ obs' = [obs EXCEPT
                       !.fatal = @ \cup {<<"net", n, "network inspect failure">>},
                       !.calls = @ + (IF CancelSkipped(net[n].closed) THEN 1 ELSE 2)]
            ELSE /\ th' = GoTh(t, [f EXCEPT !.pc = "kids", !.i = 1])
                 /\ obs' = [obs EXCEPT !.calls = @ + 1, !.netReady = TRUE]
                 /\ UNCHANGED <<failed, engine>>
    /\ UNCHANGED <<net, cont>>
    /\ StepFrame

\* for _, cont := range n.children { cont.start(ctx) }
NetworkStartChildren(t) ==
    /\ At(t, "Network.start", "kids")
    /\ LET f == Top(th[t]) n == f.node IN
       IF f.i <= Len(net[n].children)
       THEN /\ th' = CallTh(t, [f EXCEPT !.i = @ + 1],
                            "Container.start", StartChild(net[n].children, f.i))
            /\ obs' = [obs EXCEPT !.launched[StartChild(net[n].children, f.i)] = TRUE]
       ELSE /\ th' = RetTh(t)
            /\ obs' = [obs EXCEPT !.returned = TRUE]
    /\ UNCHANGED <<net, cont, engine, failBudget, failed>>
    /\ StepFrame

-----------------------------------------------------------------------------
\* Container.start and Container.initialCleanup (container.go)

\* variant: the network reference is not looked at
NetworkUnsetNever(c) == FALSE

\* if c.network == nil
NetworkUnset(c) == cont[c].network = 0

\* variant: the image is never pulled
NeedsPullNever(c) == FALSE

\* if len(images) == 0 || c.forcePull: the image is pulled
NeedsPull(c) == c \notin engine.images \/ cfg[c].forcePull

\* the network check, then ImageList with the reference filter
ContainerStartImageList(t) ==
    /\ At(t, "Container.start", "begin")
    /\ LET f == Top(th[t]) c == f.node IN
       \E fail \in Fails :
         /\ Spend(fail)
         /\ NetworkUnset(c) => ~fail
         /\ IF NetworkUnset(c)
            THEN FatalNoCall(t, "cont", c, "not added to any network")
            ELSE IF fail
            THEN /\ th' = FatalTh(t)
                 /\ failed' = TRUE
                 /\ obs' = [obs EXCEPT
                       !.fatal = @ \cup {<<"cont", c, "image listing failure">>},
                       !.calls = @ + 1, !.began[c] = TRUE]
            ELSE /\ th' = GoTh(t, [f EXCEPT !.pc =
                          IF NeedsPull(c) THEN "pull" ELSE "clean"])
                 /\ obs' = [obs EXCEPT !.calls = @ + 1, !.began[c] = TRUE]
                 /\ UNCHANGED failed
    /\ UNCHANGED <<net, cont, engine>>
    /\ StepFrame

\* ImagePull and the drain of its stream
ContainerStartPull(t) ==
    /\ At(t, "Container.start", "pull")
    /\ LET f == Top(th[t]) c == f.node IN
       \E fail \in Fails :
         /\ Spend(fail)
         /\ IF fail
            THEN Fatal(t, "cont", c, "image downloading failure") /\ UNCHANGED engine
            ELSE /\ engine' = [engine EXCEPT !.images = @ \cup {c}]
                 /\ th' = GoTh(t, [f EXCEPT !.pc = "clean"])
                 /\ obs' = [obs EXCEPT !.calls = @ + 1, !.pulled = @ \cup {c}]
                 /\ UNCHANGED failed
    /\ UNCHANGED <<net, cont>>
    /\ StepFrame

\* initialCleanup: findContainerByName
ContainerStartList(t) ==
    /\ At(t, "Container.start", "clean")
    /\ LET f == Top(th[t]) c == f.node IN
       \E fail \in Fails :
         /\ Spend(fail)
         /\ IF fail
            THEN /\ th' = FatalTh(t)
                 /\ failed' = TRUE
                 /\ obs' = [obs EXCEPT
                       !.fatal = @ \cup {<<"cont", c, "container listing failure">>},
                       !.calls = @ + 1, !.cleaned[c] = TRUE]
            ELSE LET found == findContainerByName(cfg[c].name) IN
                 /\ th' = GoTh(t, [f EXCEPT !.todo = found,
                                   !.pc = IF found = {} THEN "create" ELSE "crm"])
                 /\ obs' = [obs EXCEPT !.calls = @ + 1, !.cleaned[c] = TRUE]
                 /\ UNCHANGED failed
    /\ UNCHANGED <<net, cont, engine>>
    /\ StepFrame

\* initialCleanup: a listed container is removed if it is owned; fatal if not
ContainerStartRemove(t) ==
    /\ At(t, "Container.start", "crm")
    /\ LET f == Top(th[t]) c == f.node IN
       \E cc \in f.todo, fail \in Fails :
         /\ Spend(fail)
         /\ fail => ~HasCont(cc) \/ isOwnedByTestingdock(ECont(cc).labels)
         /\ IF HasCont(cc) /\ ~isOwnedByTestingdock(ECont(cc).labels)
            THEN FatalNoCall(t, "cont", c, "foreign container") /\ UNCHANGED engine
            ELSE IF fail \/ ~HasCont(cc)
            THEN Fatal(t, "cont", c, "container removal failure") /\ UNCHANGED engine
            ELSE /\ engine' = [engine EXCEPT !.conts = @ \ {ECont(cc)}]
                 /\ th' = GoTh(t, [f EXCEPT !.todo = @ \ {cc},
                                   !.pc = IF f.todo = {cc} THEN "create" ELSE "crm"])
                 /\ obs' = [obs EXCEPT !.calls = @ + 1,
                                       !.removed = @ \cup {cc}]
                 /\ UNCHANGED failed
    /\ UNCHANGED <<net, cont>>
    /\ StepFrame

\* ContainerCreate; c.ID and c.cancel are set, and the closure keeps the ctx of
\* this start
ContainerStartCreate(t) ==
    /\ At(t, "Container.start", "create")
    /\ LET f == Top(th[t]) c == f.node IN
       \E fail \in Fails :
         /\ Spend(fail)
         /\ IF fail \/ ~CanContainerCreate(cfg[c].name)
            THEN /\ th' = FatalTh(t)
                 /\ failed' = TRUE
                 /\ obs' = [obs EXCEPT
                       !.fatal = @ \cup {<<"cont", c,
                            IF fail THEN "container creation failure"
                            ELSE "container name conflict">>},
                       !.calls = @ + 1, !.created[c] = TRUE]
                 /\ UNCHANGED <<engine, cont>>
            ELSE /\ engine' = [engine EXCEPT
                       !.conts = @ \cup {[id |-> engine.next, name |-> cfg[c].name,
                                          labels |-> cfg[c].labels,
                                          running |-> FALSE, net |-> 0]},
                       !.next = @ + 1]
                 /\ cont' = [cont EXCEPT ![c].ID = engine.next, ![c].cancel = TRUE,
                                         ![c].ctx = Ctx]
                 /\ th' = GoTh(t, [f EXCEPT !.pc = "start"])
                 /\ obs' = [obs EXCEPT !.calls = @ + 1, !.created[c] = TRUE]
                 /\ UNCHANGED failed
    /\ UNCHANGED net
    /\ StepFrame

\* ContainerStart: the process runs, connected to the network named c.network.name
ContainerStartStart(t) ==
    /\ At(t, "Container.start", "start")
    /\ LET f == Top(th[t]) c == f.node
           name == net[cont[c].network].name IN
       \E fail \in Fails :
         /\ Spend(fail)
         /\ IF fail \/ ~CanContainerStart(cont[c].ID, name)
            THEN Fatal(t, "cont", c, "container start failure") /\ UNCHANGED engine
            ELSE \E nn \in NetworkList(name) :
                 /\ engine' = [engine EXCEPT !.conts =
                       (@ \ {ECont(cont[c].ID)}) \cup
                       {[ECont(cont[c].ID) EXCEPT !.running = TRUE, !.net = nn]}]
                 /\ th' = GoTh(t, [f EXCEPT !.pc = PcAfterStart, !.i = 1,
                                   !.clock = 0, !.polls = 0])
                 /\ obs' = [obs EXCEPT !.calls = @ + 1, !.started[c] = TRUE,
                                       !.hcRun[c] = TRUE,
                                       !.polls[c] = 0, !.clock[c] = 0]
                 /\ UNCHANGED failed
    /\ UNCHANGED <<net, cont>>
    /\ StepFrame

-----------------------------------------------------------------------------
\* Container.executeHealthCheck

\* variant: the container is taken to be running without a look at the engine
containerIsRunningAlways(id, inspectFails) == TRUE

\* containerIsRunning: ContainerInspect; a failed inspect counts as not running
containerIsRunning(id, inspectFails) ==
    ~inspectFails /\ HasCont(id) /\ ECont(id).running

\* c.healthcheck(ctx) at its poll-th invocation: the default set by newContainer
\* (healthCheckRunning) or the test's predicate, which fails hcFail times first
healthcheck(c, poll, inspectFails) ==
    IF cfg[c].hcDefault
    THEN containerIsRunning(cont[c].ID, inspectFails)
    ELSE ~cfg[c].hcNever /\ poll > cfg[c].hcFail

\* variant: the deadline has passed when the health check begins
DeadlineAtOnce(c) == 0

\* ctx, cancel := context.WithTimeout(ctx, c.healthchecktimeout): the deadline, in
\* seconds since executeHealthCheck began
Deadline(c) == cfg[c].timeout

\* select: case <-ctx.Done() is ready when the deadline comes no later than the timer
DeadlineReady(clock, deadline) == deadline <= clock + 1

\* select: case <-time.After(1 * time.Second) fires one second after the last poll
TimerReady(clock, deadline) == clock + 1 <= deadline

Max(a, b) == IF a >= b THEN a ELSE b

InHealthCheck(t) ==
    /\ Running(t)
    /\ Top(th[t]).op \in {"Container.start", "Container.reset"}
    /\ Top(th[t]).pc = "hc"

\* the timer fires: the predicate is invoked; success ends the loop
HealthCheckTick(t) ==
    /\ InHealthCheck(t)
    /\ LET f == Top(th[t]) c == f.node IN
       /\ TimerReady(f.clock, Deadline(c))
       /\ \E fail \in (IF cfg[c].hcDefault THEN Fails ELSE {FALSE}) :
            /\ Spend(fail)
            /\ LET ok == healthcheck(c, f.polls + 1, fail) IN
               /\ th' = GoTh(t, [f EXCEPT !.clock = @ + 1, !.polls = @ + 1,
                                 !.pc = PcAfterPoll(ok), !.i = 1])
               /\ obs' = [obs EXCEPT !.polls[c] = @ + 1, !.clock[c] = f.clock + 1,
                                     !.healthy[c] = ok,
                                     !.probe[c] = IF cfg[c].hcDefault
                                        THEN [fail |-> fail,
                                              running |-> HasCont(cont[c].ID) /\
                                                          ECont(cont[c].ID).running]
                                        ELSE @,
                                     !.calls = @ + (IF cfg[c].hcDefault THEN 1 ELSE 0)]
    /\ UNCHANGED <<net, cont, engine, failed>>
    /\ StepFrame

\* the deadline of context.WithTimeout(ctx, c.healthchecktimeout) passes: Fatalf
HealthCheckTimeout(t) ==
    /\ InHealthCheck(t)
    /\ LET f == Top(th[t]) c == f.node IN
       /\ DeadlineReady(f.clock, Deadline(c))
       /\ th' = FatalTh(t)
       /\ failed' = TRUE
       /\ obs' = [obs EXCEPT !.fatal = @ \cup {<<"cont", c, "health check failure">>},
                             !.clock[c] = Max(f.clock, Deadline(c))]
    /\ UNCHANGED <<net, cont, engine, failBudget>>
    /\ StepFrame

-----------------------------------------------------------------------------
\* Container.start: the children

\* the threads of the goroutines go func(cont) { defer wg.Done(); cont.<op>() }
Spawn(thx, kids, op) ==
    [u \in Tids |->
        IF \E k \in 1..Len(kids) : kids[k] = u
        THEN <<Frame(op, u)>> ELSE thx[u]]

SpawnParents(t, kids) ==
    [u \in Tids |-> IF \E k \in 1..Len(kids) : kids[k] = u THEN t ELSE thParent[u]]

\* SpawnSequential: for _, cont := range c.children { cont.start(ctx) }
ContainerStartChildrenSequential(t) ==
    /\ At(t, "Container.start", "kids")
    /\ SpawnSequential
    /\ LET f == Top(th[t]) c == f.node IN
       IF f.i <= Len(cont[c].children)
       THEN /\ th' = CallTh(t, [f EXCEPT !.i = @ + 1],
                            "Container.start", StartChild(cont[c].children, f.i))
            /\ obs' = [obs EXCEPT !.launched[StartChild(cont[c].children, f.i)] = TRUE]
       ELSE /\ th' = RetTh(t)
            /\ obs' = [obs EXCEPT !.ret[c] = TRUE]
    /\ UNCHANGED <<net, cont, engine, failBudget, failed>>
    /\ StepFrame

\* otherwise: wg.Add(len(c.children)) and one goroutine per child
ContainerStartChildrenParallel(t) ==
    /\ At(t, "Container.start", "kids")
    /\ ~SpawnSequential
    /\ LET f == Top(th[t]) c == f.node kids == cont[c].children IN
       /\ th' = Spawn(GoTh(t, [f EXCEPT !.pc = "wait", !.wg = Len(kids)]),
                      kids, "Container.start")
       /\ thParent' = SpawnParents(t, kids)
       /\ obs' = [obs EXCEPT !.launched = [k \in Containers |->
                     IF \E j \in 1..Len(kids) : kids[j] = k THEN TRUE ELSE @[k]]]
    /\ UNCHANGED <<net, cont, engine, failBudget, failed>>
    /\ Static

\* wg.Wait() returns, and so does start
ContainerStartWait(t) ==
    /\ At(t, "Container.start", "wait")
    /\ Top(th[t]).wg = 0
    /\ th' = RetTh(t)
    /\ obs' = [obs EXCEPT !.ret[Top(th[t]).node] = TRUE]
    /\ UNCHANGED <<net, cont, engine, failBudget, failed>>
    /\ StepFrame

-----------------------------------------------------------------------------
\* Container.close and the cancel closure set by Container.start

\* SpawnSequential: for _, cont := range c.children { cont.close() }
ContainerCloseChildrenSequential(t) ==
    /\ At(t, "Container.close", "begin")
    /\ SpawnSequential
    /\ LET f == Top(th[t]) c == f.node IN
       IF f.i <= Len(cont[c].children)
       THEN /\ th' = CallTh(t, [f EXCEPT !.i = @ + 1],
                            "Container.close", cont[c].children[f.i])
            /\ obs' = [obs EXCEPT !.closing[c] = "in",
                                  !.closing[cont[c].children[f.i]] = "in"]
       ELSE /\ th' = GoTh(t, [f EXCEPT !.pc = "cancel"])
            /\ obs' = [obs EXCEPT !.closing[c] = "in"]
    /\ UNCHANGED <<net, cont, engine, failBudget, failed>>
    /\ StepFrame

\* otherwise: one goroutine per child
ContainerCloseChildrenParallel(t) ==
    /\ At(t, "Container.close", "begin")
    /\ ~SpawnSequential
    /\ LET f == Top(th[t]) c == f.node kids == cont[c].children IN
       /\ th' = Spawn(GoTh(t, [f EXCEPT !.pc = "wait", !.wg = Len(kids)]),
                      kids, "Container.close")
       /\ thParent' = SpawnParents(t, kids)
       /\ obs' = [obs EXCEPT !.closing = [k \in Containers |->
                     IF k = c \/ \E j \in 1..Len(kids) : kids[j] = k
                     THEN "in" ELSE @[k]]]
    /\ UNCHANGED <<net, cont, engine, failBudget, failed>>
    /\ Static

\* wg.Wait() returns
ContainerCloseWait(t) ==
    /\ At(t, "Container.close", "wait")
    /\ Top(th[t]).wg = 0
    /\ th' = GoTh(t, [Top(th[t]) EXCEPT !.pc = "cancel"])
    /\ UNCHANGED <<net, cont, engine, failBudget, failed, obs>>
    /\ StepFrame

\* c.cancel(): nothing if c.closed, else NetworkDisconnect(c.network.id, c.ID, force),
\* made with the ctx that was passed to the start which set the closure
ContainerCloseDisconnect(t) ==
    /\ At(t, "Container.close", "cancel")
    /\ cont[Top(th[t]).node].cancel
    /\ LET f == Top(th[t]) c == f.node IN
       \E fail \in (IF CancelSkipped(cont[c].closed) \/ Cancelled(cont[c].ctx)
                    THEN {FALSE} ELSE Fails) :
         /\ Spend(fail)
         /\ IF CancelSkipped(cont[c].closed)
            THEN /\ th' = RetTh(t)
                 /\ obs' = [obs EXCEPT !.closing[c] = "ret"]
                 /\ UNCHANGED <<failed, engine>>
            ELSE IF \/ fail \/ Cancelled(cont[c].ctx)
                    \/ ~HasCont(cont[c].ID) \/ ~HasNet(net[cont[c].network].id)
            THEN /\ th' = FatalTh(t)
                 /\ failed' = TRUE
                 /\ obs' = [obs EXCEPT
                       !.fatal = @ \cup {<<"cont", c,
                            ErrOf(cont[c].ctx, "container disconnect failure")>>},
                       !.calls = @ + 1, !.torn = @ \cup {<<"cont", c>>},
                       !.closing = [k \in Containers |->
                            IF k \in ClosingOn(t) THEN "abort" ELSE @[k]]]
                 /\ UNCHANGED engine
            ELSE /\ engine' = [engine EXCEPT !.conts =
                       (@ \ {ECont(cont[c].ID)}) \cup
                       {[ECont(cont[c].ID) EXCEPT !.net = 0]}]
                 /\ th' = GoTh(t, [f EXCEPT !.pc = "remove"])
                 /\ obs' = [obs EXCEPT !.calls = @ + 1, !.torn = @ \cup {<<"cont", c>>}]
                 /\ UNCHANGED failed
    /\ UNCHANGED net
    /\ cont' = cont
    /\ StepFrame

\* c.cancel(): ContainerRemove(c.ID, force); then c.closed = true
ContainerCloseRemove(t) ==
    /\ At(t, "Container.close", "remove")
    /\ LET f == Top(th[t]) c == f.node IN
       \E fail \in (IF Cancelled(cont[c].ctx) THEN {FALSE} ELSE Fails) :
         /\ Spend(fail)
         /\ IF fail \/ Cancelled(cont[c].ctx) \/ ~HasCont(cont[c].ID)
            THEN Fatal(t, "cont", c, ErrOf(cont[c].ctx, "container removal failure"))
                 /\ UNCHANGED <<engine, cont>>
            ELSE /\ engine' = [engine EXCEPT !.conts = @ \ {ECont(cont[c].ID)}]
                 /\ cont' = [cont EXCEPT ![c].closed = TRUE]
                 /\ th' = RetTh(t)
                 /\ obs' = [obs EXCEPT !.calls = @ + 1, !.closing[c] = "ret"]
                 /\ UNCHANGED failed
    /\ UNCHANGED net
    /\ StepFrame

\* c.cancel() on a container whose start never reached ContainerCreate
ContainerCloseNilCancel(t) ==
    /\ At(t, "Container.close", "cancel")
    /\ ~cont[Top(th[t]).node].cancel
    /\ Panic
    /\ UNCHANGED <<registry, suites, SpawnSequential, Verbose, cfg, net, cont, engine,
                   failBudget, thParent, failed, ops, regBudget, afterBudget,
                   ctxDone, testBudget, cur, obs, hist>>

-----------------------------------------------------------------------------
\* Network.close and the cancel closure set by Network.start (network.go)

\* for _, cont := range n.children { cont.close() }
NetworkCloseChildren(t) ==
    /\ At(t, "Network.close", "begin")
    /\ LET f == Top(th[t]) n == f.node IN
       IF f.i <= Len(net[n].children)
       THEN /\ th' = CallTh(t, [f EXCEPT !.i = @ + 1],
                            "Container.close", net[n].children[f.i])
            /\ obs' = [obs EXCEPT !.closing[net[n].children[f.i]] = "in"]
       ELSE /\ th' = GoTh(t, [f EXCEPT !.pc = "cancel"])
            /\ obs' = obs
    /\ UNCHANGED <<net, cont, engine, failBudget, failed>>
    /\ StepFrame

\* n.cancel(): nothing if n.closed, else NetworkRemove(n.id); then n.closed = true
NetworkCloseRemove(t) ==
    /\ At(t, "Network.close", "cancel")
    /\ net[Top(th[t]).node].cancel
    /\ LET f == Top(th[t]) n == f.node IN
       \E fail \in (IF CancelSkipped(net[n].closed) \/ Cancelled(net[n].ctx)
                    THEN {FALSE} ELSE Fails) :
         /\ Spend(fail)
         /\ IF CancelSkipped(net[n].closed)
            THEN /\ th' = RetTh(t)
                 /\ UNCHANGED <<failed, engine, net, obs>>
            ELSE IF fail \/ Cancelled(net[n].ctx) \/ ~CanNetworkRemove(net[n].id)
            THEN /\ th' = FatalTh(t)
                 /\ failed' = TRUE
                 /\ obs' = [obs EXCEPT
                       !.fatal = @ \cup {<<"net", n,
                            ErrOf(net[n].ctx, "network removal failure")>>},
                       !.calls = @ + 1, !.torn = @ \cup {<<"net", n>>}]
                 /\ UNCHANGED <<engine, net>>
            ELSE /\ engine' = [engine EXCEPT !.nets = @ \ {ENet(net[n].id)}]
                 /\ net' = [net EXCEPT ![n].closed = TRUE]
                 /\ th' = RetTh(t)
                 /\ obs' = [obs EXCEPT !.calls = @ + 1, !.torn = @ \cup {<<"net", n>>}]
                 /\ UNCHANGED failed
    /\ UNCHANGED cont
    /\ StepFrame

\* n.cancel() on a network that was never started
NetworkCloseNilCancel(t) ==
    /\ At(t, "Network.close", "cancel")
    /\ ~net[Top(th[t]).node].cancel
    /\ Panic
    /\ UNCHANGED <<registry, suites, SpawnSequential, Verbose, cfg, net, cont, engine,
                   failBudget, thParent, failed, ops, regBudget, afterBudget,
                   ctxDone, testBudget, cur, obs, hist>>

-----------------------------------------------------------------------------
\* Network.reset and Container.reset

\* for _, c := range n.children { c.reset(ctx) }
\* variant: the children are ranged over from the last to the first
ResetChildBackwards(children, i) == children[Len(children) + 1 - i]

\* for _, cc := range children { cc.reset(ctx) }: the i-th child of the slice
ResetChild(children, i) == children[i]

NetworkResetChildren(t) ==
    /\ At(t, "Network.reset", "begin")
    /\ LET f == Top(th[t]) n == f.node IN
       /\ th' = IF f.i <= Len(net[n].children)
                THEN CallTh(t, [f EXCEPT !.i = @ + 1],
                            "Container.reset", ResetChild(net[n].children, f.i))
                ELSE RetTh(t)
    /\ UNCHANGED <<net, cont, engine, failBudget, failed, obs>>
    /\ StepFrame

\* ContainerRestart succeeds on an existing container
CanContainerRestart(id) == HasCont(id)

\* variant: no reset function stands in for a missing ContainerOpts.Reset
RestartsOnResetNever(c) == FALSE

\* if opts.Reset == nil { opts.Reset = resetRestart() }
RestartsOnReset(c) == cfg[c].resetRestart

\* c.resetF(ctx, c): resetRestart (the default of newContainer) or the test's function
ContainerResetAction(t) ==
    /\ At(t, "Container.reset", "begin")
    /\ LET f == Top(th[t]) c == f.node IN
       \E fail \in Fails :
         /\ Spend(fail)
         /\ IF fail \/ (RestartsOnReset(c) /\ ~CanContainerRestart(cont[c].ID))
            THEN /\ th' = FatalTh(t)
                 /\ failed' = TRUE
                 /\ obs' = [obs EXCEPT
                       !.fatal = @ \cup {<<"cont", c, "container reset failure">>},
                       !.calls = @ + (IF RestartsOnReset(c) THEN 1 ELSE 0),
                       !.restarted = IF RestartsOnReset(c) THEN @ \cup {c} ELSE @,
                       !.resetRun[c] = TRUE]
                 /\ UNCHANGED engine
            ELSE /\ engine' = IF RestartsOnReset(c)
                       THEN [engine EXCEPT !.conts =
                               (@ \ {ECont(cont[c].ID)}) \cup
                               {[ECont(cont[c].ID) EXCEPT !.running = TRUE]}]
                       ELSE engine
                 /\ th' = GoTh(t, [f EXCEPT !.pc = PcAfterReset, !.i = 1,
                                   !.clock = 0, !.polls = 0])
                 /\ obs' = [obs EXCEPT
                       !.calls = @ + (IF RestartsOnReset(c) THEN 1 ELSE 0),
                       !.restarted = IF RestartsOnReset(c) THEN @ \cup {c} ELSE @,
                       !.resetRun[c] = TRUE, !.resetOk[c] = TRUE, !.hcRun[c] = TRUE,
                       !.polls[c] = 0, !.clock[c] = 0]
                 /\ UNCHANGED failed
    /\ UNCHANGED <<net, cont>>
    /\ StepFrame

\* for _, cc := range c.children { cc.reset(ctx) }
ContainerResetChildren(t) ==
    /\ At(t, "Container.reset", "kids")
    /\ LET f == Top(th[t]) c == f.node IN
       /\ th' = IF f.i <= Len(cont[c].children)
                THEN CallTh(t, [f EXCEPT !.i = @ + 1],
                            "Container.reset", ResetChild(cont[c].children, f.i))
                ELSE RetTh(t)
    /\ UNCHANGED <<net, cont, engine, failBudget, failed, obs>>
    /\ StepFrame

-----------------------------------------------------------------------------
\* Suite (the test's calls)

Idle == ~crashed /\ \A t \in Tids : ~Running(t)

\* the tree: the roots of network n, the children of p, and what is below
Roots(n) == IF n \in NetObjs THEN {net[n].children[i] : i \in 1..Len(net[n].children)}
            ELSE {}
Kids(p) == {cont[p].children[i] : i \in 1..Len(cont[p].children)}
RECURSIVE Below(_, _)
Below(front, depth) ==
    IF depth = 0 \/ front = {} THEN front
    ELSE front \cup Below(UNION {Kids(p) : p \in front}, depth - 1)
Tree(n) == Below(Roots(n), Cardinality(Containers))

\* the places where container c stands in a child list
Edges(c) ==
    UNION {{<<"net", n, i>> : i \in {j \in 1..Len(net[n].children) :
                                        net[n].children[j] = c}} : n \in NetObjs}
    \cup
    UNION {{<<"cont", p, i>> : i \in {j \in 1..Len(cont[p].children) :
                                         cont[p].children[j] = c}} : p \in Containers}

\* every container has at most one parent and none is below itself
IsForest ==
    \A c \in Containers :
       /\ Cardinality(Edges(c)) <= 1
       /\ c \notin Below(Kids(c), Cardinality(Containers))

\* variant: the delegation to the network is not guarded
HasNetworkAlways(s) == TRUE

\* if s.network != nil
HasNetwork(s) == suites[s].network # 0

\* variant: the suite keeps the network of its first Suite.Network call
NetworkOfFirst(s) == IF suites[s].network = 0 THEN 0 ELSE 1

\* s.network
NetworkOf(s) == suites[s].network

\* a call of Suite.Start, Suite.Reset or Suite.Close; the traversals are explored
\* on forests
Begin(kind, s, logWatcher) ==
    /\ Idle
    /\ IsForest
    /\ ~cur.active
    /\ ops < MaxOps
    /\ ops' = ops + 1
    /\ cur' = [kind |-> kind, suite |-> s, net |-> NetworkOf(s), active |-> TRUE,
               name |-> suites[s].name, existed |-> FALSE, first |-> FALSE,
               again |-> NetworkOf(s) \in hist.closeOk]
    /\ obs' = ObsInit
    /\ failed' = FALSE
    /\ th' = IF HasNetwork(s)
             THEN [th EXCEPT ![0] = <<Frame(kind, NetworkOf(s))>>] ELSE th
    /\ suites' = [suites EXCEPT ![s].logWatcher = logWatcher]
    /\ UNCHANGED <<SpawnSequential, Verbose, cfg, net, cont, engine, failBudget,
                   thParent, crashed, hist, registry, regBudget, afterBudget,
                   ctxDone, testBudget>>

\* Suite.Start: if s.logWatcher == nil && Verbose, the log watcher is made and a
\* goroutine prints its messages until ctx is done (it makes no engine call)
LogWatcherAfterStart(s) == suites[s].logWatcher \/ Verbose

\* Suite.Start: the log watcher, then s.network.start(ctx) if a network is attached
SuiteStart(s) == Begin("Network.start", s, LogWatcherAfterStart(s))

\* Suite.Reset: s.network.reset(ctx) if a network is attached
SuiteReset(s) == Begin("Network.reset", s, suites[s].logWatcher)

\* Suite.Close: s.network.close() if a network is attached
SuiteClose(s) == Begin("Network.close", s, suites[s].logWatcher)

\* the call returns to the test, or the test goroutine has ended in Fatalf
Return ==
    /\ Idle
    /\ cur.active
    /\ cur' = [cur EXCEPT !.active = FALSE]
    /\ hist' = [hist EXCEPT
          !.invoked = IF cur.kind = "Network.start" /\ cur.net # 0
                      THEN @ \cup {cur.net} ELSE @,
          !.startOk = IF cur.kind = "Network.start" /\ cur.net # 0 /\ ~failed
                      THEN @ \cup {cur.net} ELSE @,
          !.closeOk = IF cur.kind = "Network.close" /\ cur.net # 0 /\ ~failed
                         /\ cur.net \in hist.startOk
                      THEN @ \cup {cur.net} ELSE @,
          !.kept = IF cur.kind = "UnregisterAll"
                   THEN {nm \in SuiteNames : registry[nm] # 0} ELSE @,
          !.cleared = IF cur.kind = "UnregisterAll" THEN obs.done ELSE @,
          !.gone = IF cur.kind = "UnregisterAll" /\ obs.done
                   THEN {s \in SuiteIds : suites[s].name # ""} ELSE @]
    /\ UNCHANGED <<SpawnSequential, Verbose, cfg, net, cont, engine, failBudget, th, thParent,
                   crashed, failed, ops, obs, registry, suites, regBudget,
                   afterBudget,
                   ctxDone, testBudget>>

-----------------------------------------------------------------------------
\* the registry (suite.go)

\* SuiteOpts.Client: a client is given, or client.NewEnvClient() is called and may fail
ClientOpts == {"given", "env", "envFails"}

FreeSuites == {s \in SuiteIds : suites[s].name = ""}
NewSuite == CHOOSE s \in FreeSuites : \A u \in FreeSuites : s <= u

\* variant: the registry is not consulted
LookupNothing(name) == 0

\* if s, ok := registry[name]; ok { return s, true }
Lookup(name) == registry[name]

\* GetOrCreateSuite: the registered suite, or a new one which is registered; a
\* failing client.NewEnvClient() ends the test in Skipf or Fatalf before that
GetOrCreateSuite(name, client, skip) ==
    /\ Idle
    /\ ~cur.active
    /\ ops < MaxOps
    /\ regBudget > 0
    /\ Lookup(name) # 0 \/ client = "envFails" \/ FreeSuites # {}
    /\ ops' = ops + 1
    /\ regBudget' = regBudget - 1
    /\ UNCHANGED <<afterBudget, ctxDone, testBudget>>
    /\ obs' = ObsInit
    /\ IF Lookup(name) # 0
       THEN /\ cur' = [kind |-> "GetOrCreateSuite", suite |-> Lookup(name), net |-> 0,
                       active |-> FALSE, name |-> name, existed |-> TRUE,
                       first |-> hist.got[name] = 0, again |-> FALSE]
            /\ failed' = FALSE
            /\ hist' = [hist EXCEPT !.got[name] = IF @ = 0 THEN Lookup(name) ELSE @]
            /\ UNCHANGED <<registry, suites>>
       ELSE IF client = "envFails"
       THEN /\ cur' = [kind |-> IF skip THEN "skipped" ELSE "GetOrCreateSuite",
                       suite |-> 0, net |-> 0, active |-> FALSE, name |-> name,
                       existed |-> FALSE, first |-> hist.got[name] = 0, again |-> FALSE]
            /\ failed' = TRUE
            /\ UNCHANGED <<registry, suites, hist>>
       ELSE /\ suites' = [suites EXCEPT ![NewSuite] = [name |-> name, network |-> 0,
                                                          logWatcher |-> FALSE]]
            /\ registry' = [registry EXCEPT ![name] = NewSuite]
            /\ cur' = [kind |-> "GetOrCreateSuite", suite |-> NewSuite, net |-> 0,
                       active |-> FALSE, name |-> name, existed |-> FALSE,
                       first |-> hist.got[name] = 0, again |-> FALSE]
            /\ failed' = FALSE
            /\ hist' = [hist EXCEPT !.got[name] = IF @ = 0 THEN NewSuite ELSE @]
    /\ UNCHANGED <<SpawnSequential, Verbose, cfg, net, cont, engine, failBudget, th, thParent,
                   crashed>>

\* the goroutines of the test that call GetOrCreateSuite at the same time
Tasks == {1, 2}

\* the test calls GetOrCreateSuite(t, name, opts) with a client in opts from the
\* goroutines of Tasks and waits for them
ConcurrentGetOrCreateSuite(name) ==
    /\ Idle
    /\ ~cur.active
    /\ ops < MaxOps
    /\ testBudget.tasks > 0
    /\ Lookup(name) # 0 \/ Cardinality(FreeSuites) >= Cardinality(Tasks)
    /\ ops' = ops + 1
    /\ testBudget' = [testBudget EXCEPT !.tasks = @ - 1]
    /\ cur' = [kind |-> "GetOrCreateSuite.tasks", suite |-> Lookup(name), net |-> 0,
               active |-> TRUE, name |-> name, existed |-> Lookup(name) # 0,
               first |-> FALSE, again |-> FALSE]
    /\ obs' = ObsInit
    /\ failed' = FALSE
    /\ th' = [u \in Tids |->
                IF u \in Tasks THEN <<Frame("GetOrCreateSuite", 0)>>
                ELSE IF u = 0
                THEN <<[Frame("tasks", 0) EXCEPT !.pc = "wait", !.wg = Cardinality(Tasks)]>>
                ELSE th[u]]
    /\ thParent' = [u \in Tids |-> IF u \in Tasks THEN 0 ELSE thParent[u]]
    /\ UNCHANGED <<registry, suites, SpawnSequential, Verbose, cfg, net, cont, engine,
                   failBudget, crashed, regBudget, afterBudget, ctxDone, hist>>

\* the registry is a plain map: an access of goroutine t that is not ordered with
\* a write of another goroutine is a data race; the runtime may then stop the
\* process (fatal error: concurrent map writes, or map read and map write)
Races(t, writes) ==
    \E u \in Tasks \ {t} :
       \/ At(u, "GetOrCreateSuite", "make")
       \/ writes /\ At(u, "GetOrCreateSuite", "begin")

\* if s, ok := registry[name]; ok { return s, true }
RegistryLookup(t) ==
    /\ At(t, "GetOrCreateSuite", "begin")
    /\ \/ /\ Lookup(cur.name) # 0
          /\ th' = RetTh(t)
          /\ obs' = [obs EXCEPT !.rets = @ \cup {<<t, Lookup(cur.name), TRUE>>}]
          /\ UNCHANGED crashed
       \/ /\ Lookup(cur.name) = 0
          /\ th' = GoTh(t, [Top(th[t]) EXCEPT !.pc = "make"])
          /\ UNCHANGED <<obs, crashed>>
       \/ /\ Races(t, FALSE)
          /\ Panic
          /\ UNCHANGED obs
    /\ UNCHANGED <<registry, suites, SpawnSequential, Verbose, cfg, net, cont, engine,
                   failBudget, thParent, failed, ops, regBudget, afterBudget, ctxDone,
                   testBudget, cur, hist>>

\* s := &Suite{...}; registry[s.name] = s; return s, false
RegistryStore(t) ==
    /\ At(t, "GetOrCreateSuite", "make")
    /\ \/ /\ suites' = [suites EXCEPT ![NewSuite] = [name |-> cur.name, network |-> 0,
                                                          logWatcher |-> FALSE]]
          /\ registry' = [registry EXCEPT ![cur.name] = NewSuite]
          /\ th' = RetTh(t)
          /\ obs' = [obs EXCEPT !.rets = @ \cup {<<t, NewSuite, FALSE>>}]
          /\ UNCHANGED crashed
       \/ /\ Races(t, TRUE)
          /\ Panic
          /\ UNCHANGED <<registry, suites, obs>>
    /\ UNCHANGED <<SpawnSequential, Verbose, cfg, net, cont, engine,
                   failBudget, thParent, failed, ops, regBudget, afterBudget, ctxDone,
                   testBudget, cur, hist>>

\* the goroutines of Tasks have returned
TasksWait(t) ==
    /\ At(t, "tasks", "wait")
    /\ Top(th[t]).wg = 0
    /\ th' = RetTh(t)
    /\ UNCHANGED <<net, cont, engine, failBudget, failed, obs>>
    /\ StepFrame

\* Network.After: c.network = n; n.children = append(n.children, c)
NetworkAfter(n, c) ==
    /\ Idle
    /\ ~cur.active
    /\ ops < MaxOps
    /\ afterBudget > 0
    /\ net[n].name # ""
    /\ ops' = ops + 1
    /\ afterBudget' = afterBudget - 1
    /\ cont' = [cont EXCEPT ![c].network = n]
    /\ net' = [net EXCEPT ![n].children = Append(@, c)]
    /\ cur' = [kind |-> "Network.After", suite |-> 0, net |-> n, active |-> FALSE,
               name |-> "", existed |-> FALSE, first |-> FALSE, again |-> FALSE]
    /\ obs' = ObsInit
    /\ failed' = FALSE
    /\ UNCHANGED <<hist, ctxDone, testBudget>>
    /\ UNCHANGED <<registry, suites, SpawnSequential, Verbose, cfg, engine, failBudget,
                   th, thParent, crashed, regBudget>>

\* Container.After: cc.network = c.network; c.children = append(c.children, cc)
ContainerAfter(c, cc) ==
    /\ Idle
    /\ ~cur.active
    /\ ops < MaxOps
    /\ afterBudget > 0
    /\ ops' = ops + 1
    /\ afterBudget' = afterBudget - 1
    /\ cont' = [[cont EXCEPT ![cc].network = cont[c].network]
                   EXCEPT ![c].children = Append(@, cc)]
    /\ cur' = [kind |-> "Container.After", suite |-> 0, net |-> cont[c].network,
               active |-> FALSE, name |-> "", existed |-> FALSE, first |-> FALSE,
               again |-> FALSE]
    /\ obs' = ObsInit
    /\ failed' = FALSE
    /\ UNCHANGED <<hist, ctxDone, testBudget>>
    /\ UNCHANGED <<registry, suites, SpawnSequential, Verbose, cfg, net, engine,
                   failBudget, th, thParent, crashed, regBudget>>

\* the contexts kept by the cancel closures
CapturedCtx == ({net[n].ctx : n \in NetObjs} \cup {cont[c].ctx : c \in Containers}) \ {0}

\* the test cancels a context that it passed to Suite.Start, or its deadline passes
CtxCancel(k) ==
    /\ Idle
    /\ ~cur.active
    /\ ops < MaxOps
    /\ testBudget.cancel > 0
    /\ k \in CapturedCtx \ ctxDone
    /\ ops' = ops + 1
    /\ testBudget' = [testBudget EXCEPT !.cancel = @ - 1]
    /\ ctxDone' = ctxDone \cup {k}
    /\ cur' = [kind |-> "ctx.cancel", suite |-> 0, net |-> 0, active |-> FALSE,
               name |-> "", existed |-> FALSE, first |-> FALSE, again |-> FALSE]
    /\ obs' = ObsInit
    /\ failed' = FALSE
    /\ UNCHANGED <<registry, suites, SpawnSequential, Verbose, cfg, net, cont, engine,
                   failBudget, th, thParent, crashed, regBudget, afterBudget, hist>>

NetworkNames == {"net1", "net2"}
FreeNets == {n \in NetObjs : net[n].name = ""}
NewNet == CHOOSE n \in FreeNets : \A u \in FreeNets : n <= u

\* Suite.Network: s.network = newNetwork(s.t, s.cli, opts); the network is made,
\* not started, and takes the place of the suite's earlier network
SuiteNetwork(s, name) ==
    /\ Idle
    /\ ~cur.active
    /\ ops < MaxOps
    /\ regBudget > 0
    /\ FreeNets # {}
    /\ ops' = ops + 1
    /\ regBudget' = regBudget - 1
    /\ UNCHANGED <<afterBudget, ctxDone, testBudget>>
    /\ net' = [net EXCEPT ![NewNet] = [name |-> name, id |-> 0, cancel |-> FALSE, ctx |-> 0,
                                       closed |-> FALSE, labels |-> createTestingLabel,
                                       children |-> <<>>]]
    /\ suites' = [suites EXCEPT ![s].network = NewNet]
    /\ cur' = [kind |-> "Suite.Network", suite |-> s, net |-> NewNet, active |-> FALSE,
               name |-> suites[s].name, existed |-> FALSE, first |-> FALSE,
               again |-> FALSE]
    /\ obs' = ObsInit
    /\ failed' = FALSE
    /\ hist' = [hist EXCEPT !.replaced = @ \cup ({suites[s].network} \ {0})]
    /\ UNCHANGED <<registry, SpawnSequential, Verbose, cfg, cont, engine, failBudget,
                   th, thParent, crashed>>

\* UnregisterAll is called
UnregisterAll ==
    /\ Idle
    /\ ~cur.active
    /\ ops < MaxOps
    /\ regBudget > 0
    /\ ops' = ops + 1
    /\ regBudget' = regBudget - 1
    /\ UNCHANGED <<afterBudget, ctxDone, testBudget>>
    /\ cur' = [kind |-> "UnregisterAll", suite |-> 0, net |-> 0, active |-> TRUE,
               name |-> "", existed |-> FALSE, first |-> FALSE, again |-> FALSE]
    /\ obs' = ObsInit
    /\ failed' = FALSE
    /\ th' = [th EXCEPT ![0] = <<[Frame("UnregisterAll", 0) EXCEPT
                                    !.todo2 = {nm \in SuiteNames : registry[nm] # 0}]>>]
    /\ hist' = [hist EXCEPT !.got = [nm \in SuiteNames |-> 0]]
    /\ UNCHANGED <<SpawnSequential, Verbose, cfg, net, cont, engine, failBudget, thParent,
                   crashed, registry, suites>>

\* variant: the entry stays in the map
DeletedNothing(reg, name) == reg

\* delete(registry, name)
Deleted(reg, name) == [reg EXCEPT ![name] = 0]

\* for name, reg := range registry { reg.Close() ... }: each entry is visited once,
\* in any order (todo2 holds the entries not yet visited); Suite.Close closes the
\* network if there is one and returns nil if there is none
UnregisterAllRange(t) ==
    /\ At(t, "UnregisterAll", "begin")
    /\ LET f == Top(th[t]) IN
       IF f.todo2 = {}
       THEN /\ th' = RetTh(t)
            /\ obs' = [obs EXCEPT !.done = TRUE]
            /\ UNCHANGED registry
       ELSE \E nm \in f.todo2 :
              IF suites[registry[nm]].network # 0
              THEN /\ th' = CallTh(t, [f EXCEPT !.pc = "del", !.todo = {nm},
                                                !.todo2 = @ \ {nm}],
                                   "Network.close", suites[registry[nm]].network)
                   /\ UNCHANGED <<registry, obs>>
              ELSE /\ registry' = Deleted(registry, nm)
                   /\ th' = GoTh(t, [f EXCEPT !.todo2 = @ \ {nm}])
                   /\ UNCHANGED obs
    /\ UNCHANGED <<suites, SpawnSequential, Verbose, cfg, net, cont, engine, failBudget,
                   thParent, crashed, failed, ops, regBudget, afterBudget,
                   ctxDone, testBudget, cur, hist>>

\* delete(registry, name), after reg.Close() has returned
UnregisterAllDelete(t) ==
    /\ At(t, "UnregisterAll", "del")
    /\ LET f == Top(th[t]) IN
       /\ \E nm \in f.todo : registry' = Deleted(registry, nm)
       /\ th' = GoTh(t, [f EXCEPT !.pc = "begin", !.todo = {}])
    /\ UNCHANGED <<suites, SpawnSequential, Verbose, cfg, net, cont, engine, failBudget,
                   thParent, crashed, failed, ops, regBudget, afterBudget,
                   ctxDone, testBudget, cur, obs, hist>>

-----------------------------------------------------------------------------
\* the initial states: one registered suite with its network, the containers
\* made by Suite.Container and wired by After, and what the engine already holds;
\* in the scenarios with reuse the suite was started and closed once before

NoKids == [c \in Containers |-> <<>>]
TopoChain == [roots |-> <<1>>, kids |-> [NoKids EXCEPT ![1] = <<2>>, ![2] = <<3>>]]
TopoRoots == [roots |-> <<1, 2>>, kids |-> [NoKids EXCEPT ![1] = <<3>>]]
TopoFork == [roots |-> <<1>>, kids |-> [NoKids EXCEPT ![1] = <<2, 3>>]]
TopoNone == [roots |-> <<>>, kids |-> NoKids]
Topologies == {TopoChain, TopoRoots, TopoFork}
TopoOne == [roots |-> <<1>>, kids |-> NoKids]
Attached(topo) ==
    {c \in Containers :
        \/ \E i \in 1..Len(topo.roots) : topo.roots[i] = c
        \/ \E p \in Containers : \E i \in 1..Len(topo.kids[p]) : topo.kids[p][i] = c}

ContainerName(c) == <<"c1", "c2", "c3">>[c]

\* a health check of the test: fails k times, then succeeds; or never succeeds
HcAfter(k) == [hcDefault |-> FALSE, hcNever |-> FALSE, hcFail |-> k]
HcNever == [hcDefault |-> FALSE, hcNever |-> TRUE, hcFail |-> 0]
\* no health check given: newContainer sets healthCheckRunning
HcDefault == [hcDefault |-> TRUE, hcNever |-> FALSE, hcFail |-> 0]
HcChoices == {HcAfter(k) : k \in 0..MaxHcFail} \cup {HcNever, HcDefault}

EmptyEngine == [nets |-> {}, conts |-> {}]
ENetRec(id, name, labels) == [id |-> id, name |-> name, labels |-> labels]
EContRec(id, name, labels, running, n) ==
    [id |-> id, name |-> name, labels |-> labels, running |-> running, net |-> n]

\* leftovers of earlier runs (labelled) and resources of others (not labelled)
PreExisting ==
    {[nets |-> {ENetRec(1, "net1", l)}, conts |-> {}] : l \in {{}, createTestingLabel}}
    \cup {[nets |-> {}, conts |-> {EContRec(1, "c1", l, r, 0)}] :
            l \in {{}, createTestingLabel}, r \in BOOLEAN}
    \cup {[nets |-> {ENetRec(1, "net1", l)},
           conts |-> {EContRec(2, nm, m, TRUE, 1)}] :
            l \in {{}, createTestingLabel}, m \in {{}, createTestingLabel},
            nm \in {"c1", "other"}}

\* the engine ids given by a first Suite.Start in sequential mode, which is
\* followed by a Suite.Close: the network, then the containers in pre-order
FirstNetId == 3
FirstContId(c) == FirstNetId + c

\* trees built with c1.After(c2) before n.After(c1): After copies the parent's
\* network reference when it is called, so c2 and what comes after c2 have none
LateWired == {<<TopoChain, {2, 3}>>, <<TopoFork, {2}>>}

\* a second registered suite s2 with its own network and the container c2 on it:
\* none, one that uses the names of s1 (net1, c1), one with names of its own
SecondSuite == 2
SecondNet == 2
SecondCont == 2
SecondNetName(second) == IF second = "same" THEN "net1" ELSE "net2"
SecondContName(second) == IF second = "same" THEN "c1" ELSE "c2"

Scenarios ==
    [topo : Topologies, seq : BOOLEAN, hcAt : {1}, hc : {HcAfter(0)},
     pre : {EmptyEngine}, img : {"local"}, fail : {MaxFail}, restart : {TRUE}, reg : {0},
     unset : {{}}, snet : {1}, verbose : {FALSE},
     after : {0}, reuse : {FALSE}, cancels : {0}, tasks : {0},
     second : {"none"}]
    \cup
    [topo : {TopoChain}, seq : BOOLEAN, hcAt : {1, 2}, hc : HcChoices,
     pre : {EmptyEngine}, img : {"local"}, fail : {0}, restart : {FALSE}, reg : {0},
     unset : {{}}, snet : {1}, verbose : {FALSE},
     after : {0}, reuse : {FALSE}, cancels : {0}, tasks : {0},
     second : {"none"}]
    \cup
    [topo : {TopoChain}, seq : {TRUE}, hcAt : {1}, hc : {HcAfter(0)},
     pre : PreExisting, img : {"local", "missing", "force"}, fail : {0},
     restart : {TRUE}, reg : {0}, unset : {{}}, snet : {1}, verbose : {FALSE},
     after : {0}, reuse : {FALSE}, cancels : {0}, tasks : {0},
     second : {"none"}]
    \cup
    [topo : {TopoNone, TopoChain}, seq : {TRUE}, hcAt : {1}, hc : {HcAfter(0)},
     pre : {EmptyEngine}, img : {"local"}, fail : {MaxFail}, restart : {TRUE},
     reg : {MaxRegOps}, unset : {{}}, snet : {1}, verbose : {FALSE},
     after : {0}, reuse : {FALSE}, cancels : {0}, tasks : {0},
     second : {"none"}]
    \cup
    [topo : {TopoNone}, seq : {TRUE}, hcAt : {1}, hc : {HcAfter(0)},
     pre : {EmptyEngine}, img : {"local"}, fail : {0}, restart : {TRUE},
     reg : {MaxRegOps}, unset : {{}}, snet : {0}, verbose : BOOLEAN,
     after : {0}, reuse : {FALSE}, cancels : {0}, tasks : {0},
     second : {"none"}]
    \cup
    [topo : {TopoChain}, seq : {FALSE}, hcAt : {1}, hc : {HcDefault},
     pre : {EmptyEngine}, img : {"force"}, fail : {MaxFail}, restart : {TRUE},
     reg : {0}, unset : {{}}, snet : {1}, verbose : {FALSE},
     after : {0}, reuse : {FALSE}, cancels : {0}, tasks : {0},
     second : {"none"}]
    \cup
    [topo : {TopoNone, TopoOne}, seq : {TRUE}, hcAt : {1}, hc : {HcAfter(0)},
     pre : {EmptyEngine}, img : {"local"}, fail : {0}, restart : {TRUE},
     reg : {0}, unset : {{}}, snet : {1}, verbose : {FALSE}, after : {MaxAfter},
     reuse : {FALSE}, cancels : {0}, tasks : {0},
     second : {"none"}]
    \cup
    {[topo |-> w[1], seq |-> q, hcAt |-> 1, hc |-> HcAfter(0), pre |-> EmptyEngine,
      img |-> "local", fail |-> 0, restart |-> TRUE, reg |-> 0, unset |-> w[2], snet |-> 1,
      verbose |-> FALSE, after |-> 0, reuse |-> FALSE,
      cancels |-> 0, tasks |-> 0, second |-> "none"] :
        w \in LateWired, q \in BOOLEAN}
    \cup
    [topo : {TopoOne, TopoChain}, seq : {TRUE}, hcAt : {1}, hc : {HcAfter(0)},
     pre : {EmptyEngine}, img : {"local"}, fail : {0}, restart : {TRUE},
     reg : {0}, unset : {{}}, snet : {1}, verbose : {FALSE}, after : {0},
     reuse : {TRUE}, cancels : {0}, tasks : {0},
     second : {"none"}]
    \cup
    [topo : {TopoChain}, seq : {TRUE}, hcAt : {1}, hc : {HcAfter(0)},
     pre : {EmptyEngine}, img : {"local"}, fail : {0}, restart : {TRUE},
     reg : {0}, unset : {{}}, snet : {1}, verbose : {FALSE}, after : {0},
     reuse : {FALSE}, cancels : {MaxCancel}, tasks : {0},
     second : {"none"}]
    \cup
    [topo : {TopoOne}, seq : {TRUE}, hcAt : {1}, hc : {HcAfter(0)},
     pre : {EmptyEngine}, img : {"local"}, fail : {0}, restart : {TRUE},
     reg : {0}, unset : {{}}, snet : {1}, verbose : {FALSE}, after : {0},
     reuse : {FALSE}, cancels : {0}, tasks : {0}, second : {"same", "other"}]
    \cup
    [topo : {TopoNone}, seq : {TRUE}, hcAt : {1}, hc : {HcAfter(0)},
     pre : {EmptyEngine}, img : {"local"}, fail : {0}, restart : {TRUE},
     reg : {0}, unset : {{}}, snet : {1}, verbose : {FALSE}, after : {0},
     reuse : {FALSE}, cancels : {0}, tasks : {MaxTasks}, second : {"none"}]

InitOf(sc) ==
    /\ registry = [nm \in SuiteNames |->
                     IF nm = "s1" THEN 1
                     ELSE IF sc.second # "none" THEN SecondSuite ELSE 0]
    /\ suites = [s \in SuiteIds |->
                   IF s = 1 THEN [name |-> "s1", network |-> sc.snet,
                                  logWatcher |-> FALSE]
                   ELSE IF s = SecondSuite /\ sc.second # "none"
                   THEN [name |-> "s2", network |-> SecondNet, logWatcher |-> FALSE]
                   ELSE [name |-> "", network |-> 0, logWatcher |-> FALSE]]
    /\ SpawnSequential = sc.seq
    /\ Verbose = sc.verbose
    /\ cfg = [c \in Containers |->
                [name |-> IF c = SecondCont /\ sc.second # "none"
                          THEN SecondContName(sc.second) ELSE ContainerName(c),
                 labels |-> createTestingLabel,
                 forcePull |-> (sc.img = "force"),
                 hcDefault |-> IF c = sc.hcAt THEN sc.hc.hcDefault ELSE FALSE,
                 hcNever |-> IF c = sc.hcAt THEN sc.hc.hcNever ELSE FALSE,
                 hcFail |-> IF c = sc.hcAt THEN sc.hc.hcFail ELSE 0,
                 timeout |-> HcTimeout,
                 resetRestart |-> sc.restart]]
    /\ net = [n \in NetObjs |->
                [name |-> IF n = 1 /\ sc.snet = 1 THEN "net1"
                          ELSE IF n = SecondNet /\ sc.second # "none"
                          THEN SecondNetName(sc.second) ELSE "",
                 id |-> IF n = 1 /\ sc.reuse THEN FirstNetId ELSE 0,
                 cancel |-> (n = 1 /\ sc.reuse), ctx |-> 0,
                 closed |-> (n = 1 /\ sc.reuse), labels |-> createTestingLabel,
                 children |-> IF n = 1 THEN sc.topo.roots
                              ELSE IF sc.second # "none" THEN <<SecondCont>> ELSE <<>>]]
    /\ cont = [c \in Containers |->
                [network |-> IF c \in Attached(sc.topo) \ sc.unset THEN 1
                             ELSE IF c = SecondCont /\ sc.second # "none"
                             THEN SecondNet ELSE 0,
                 ID |-> IF sc.reuse /\ c \in Attached(sc.topo) THEN FirstContId(c) ELSE 0,
                 cancel |-> (sc.reuse /\ c \in Attached(sc.topo)), ctx |-> 0,
                 closed |-> (sc.reuse /\ c \in Attached(sc.topo)),
                 children |-> sc.topo.kids[c]]]
    /\ engine = [nets |-> sc.pre.nets, conts |-> sc.pre.conts,
                 images |-> IF sc.img = "missing" THEN {} ELSE Containers,
                 next |-> IF sc.reuse
                          THEN FirstNetId + Cardinality(Attached(sc.topo)) + 1
                          ELSE FirstNetId]
    /\ failBudget = sc.fail
    /\ th = [t \in Tids |-> <<>>]
    /\ thParent = [t \in Tids |-> 0]
    /\ crashed = FALSE
    /\ failed = FALSE
    /\ ops = 0
    /\ regBudget = sc.reg
    /\ afterBudget = sc.after
    /\ ctxDone = {}
    /\ testBudget = [cancel |-> sc.cancels, tasks |-> sc.tasks]
    /\ cur = [kind |-> "none", suite |-> 0, net |-> 0, active |-> FALSE,
              name |-> "", existed |-> FALSE, first |-> FALSE, again |-> FALSE]
    /\ obs = ObsInit
    /\ hist = [startOk |-> IF sc.reuse THEN {1} ELSE {},
               closeOk |-> IF sc.reuse THEN {1} ELSE {},
               foreign |-> {e.id : e \in {x \in sc.pre.nets \cup sc.pre.conts :
                                             ~isOwnedByTestingdock(x.labels)}},
               got |-> [nm \in SuiteNames |->
                          IF nm = "s1" THEN 1
                          ELSE IF sc.second # "none" THEN SecondSuite ELSE 0],
               kept |-> {}, cleared |-> FALSE, gone |-> {}, replaced |-> {},
               invoked |-> IF sc.reuse THEN {1} ELSE {}]

Init == \E sc \in Scenarios : InitOf(sc)

Step(t) ==
    \/ NetworkStartList(t)
    \/ NetworkStartContainerList(t)
    \/ NetworkStartContainerRemove(t)
    \/ NetworkStartNetworkRemove(t)
    \/ NetworkStartCreate(t)
    \/ NetworkStartInspect(t)
    \/ NetworkStartChildren(t)
    \/ ContainerStartImageList(t)
    \/ ContainerStartPull(t)
    \/ ContainerStartList(t)
    \/ ContainerStartRemove(t)
    \/ ContainerStartCreate(t)
    \/ ContainerStartStart(t)
    \/ HealthCheckTick(t)
    \/ HealthCheckTimeout(t)
    \/ ContainerStartChildrenSequential(t)
    \/ ContainerStartChildrenParallel(t)
    \/ ContainerStartWait(t)
    \/ ContainerCloseChildrenSequential(t)
    \/ ContainerCloseChildrenParallel(t)
    \/ ContainerCloseWait(t)
    \/ ContainerCloseDisconnect(t)
    \/ ContainerCloseRemove(t)
    \/ ContainerCloseNilCancel(t)
    \/ NetworkCloseChildren(t)
    \/ NetworkCloseRemove(t)
    \/ NetworkCloseNilCancel(t)
    \/ NetworkResetChildren(t)
    \/ ContainerResetAction(t)
    \/ ContainerResetChildren(t)
    \/ UnregisterAllRange(t)
    \/ UnregisterAllDelete(t)
    \/ RegistryLookup(t)
    \/ RegistryStore(t)
    \/ TasksWait(t)

\* the Suite objects a test may hold
Suites == {s \in SuiteIds : suites[s].name # ""}

Next ==
    \/ \E s \in Suites : SuiteStart(s) \/ SuiteReset(s) \/ SuiteClose(s)
    \/ \E s \in Suites, nm \in NetworkNames : SuiteNetwork(s, nm)
    \/ \E n \in NetObjs, c \in Containers : NetworkAfter(n, c)
    \/ \E c, cc \in Containers : ContainerAfter(c, cc)
    \/ \E k \in 1..MaxOps : CtxCancel(k)
    \/ \E nm \in SuiteNames, client \in ClientOpts, skip \in BOOLEAN :
          GetOrCreateSuite(nm, client, skip)
    \/ \E nm \in SuiteNames : ConcurrentGetOrCreateSuite(nm)
    \/ UnregisterAll
    \/ Return
    \/ \E t \in Tids : Step(t)

Spec == Init /\ [][Next]_vars

-----------------------------------------------------------------------------
\* what the properties speak about

\* container c's health check ended in Fatalf
HcFatal(c) == <<"cont", c, "health check failure">> \in obs.fatal

-----------------------------------------------------------------------------
\* container c's start, reset or close called Fatalf for the reason why
FatalOf(c, why) == <<"cont", c, why>> \in obs.fatal

\* the calls of a suite that are delegated to its network
Lifecycle == {"Network.start", "Network.reset", "Network.close"}

\* the child lists of network n and of the containers
ChildLists(n) ==
    (IF n \in NetObjs THEN {net[n].children} ELSE {}) \cup
    {cont[c].children : c \in Containers}

\* c and every container below it
Subtree(c) == Below({c}, Cardinality(Containers))

\* C1: for every edge parent->child, sequential or parallel, no engine call of
\* the child's start is issued before the parent is ready: the network created
\* and inspected, the parent container created, started and healthy.
C1_ChildStartsAfterParent ==
    \A c \in Containers :
        (obs.began[c] \/ obs.created[c] \/ obs.started[c]) =>
            /\ \A n \in NetObjs : c \in Roots(n) => obs.netCreated /\ obs.netReady
            /\ \A p \in Containers : c \in Kids(p) =>
                   obs.created[p] /\ obs.started[p] /\ obs.healthy[p]

\* a child's start issues calls in parallel mode, its sibling's too
C1_Witness ==
    /\ ~SpawnSequential
    /\ cur.kind = "Network.start"
    /\ \E p \in Containers : \E c, d \in Kids(p) :
          c # d /\ obs.created[c] /\ obs.began[d] /\ obs.healthy[p]

\* C2: during close a node's teardown (disconnect and remove, or network
\* remove) is invoked only after close() of each of its children has returned;
\* the network is removed only after the teardown of every container of its tree.
C2_TeardownAfterChildrenClosed ==
    /\ \A p \in Containers : <<"cont", p>> \in obs.torn =>
           \A k \in Kids(p) : obs.closing[k] = "ret"
    /\ \A n \in NetObjs : <<"net", n>> \in obs.torn =>
           \A c \in Tree(n) : obs.closing[c] = "ret"

\* C3: after a successful start and a successful close of a network, a further
\* close of it issues no engine call.
C3_SecondCloseIssuesNoCall ==
    (cur.kind = "Network.close" /\ cur.again) => obs.calls = 0

\* a second close of a started and closed network with containers has returned
C3_Witness ==
    /\ cur.kind = "Network.close"
    /\ cur.again
    /\ ~cur.active
    /\ ~crashed
    /\ Roots(cur.net) # {}
    /\ \A c \in Tree(cur.net) : obs.closing[c] = "ret"

\* C4: when a name to be started is held by a resource without the ownership
\* marker, the start aborts fatally, that resource is never removed and no
\* create call for the name is issued.
C4_ForeignCollisionAborts ==
    (cur.kind = "Network.start" /\ cur.net \in NetObjs) =>
        /\ obs.removed \cap hist.foreign = {}
        /\ (\E e \in engine.nets : e.id \in hist.foreign /\ e.name = net[cur.net].name)
               => ~obs.netCreated /\ (~cur.active => failed)
        /\ \A c \in Containers :
               (\E e \in engine.conts : e.id \in hist.foreign /\ e.name = cfg[c].name)
                   => ~obs.created[c] /\ (obs.began[c] /\ ~cur.active => failed)

\* C5: if every resource already holding a name of this run carries the
\* ownership marker, the cleanup before create removes it whatever its state and
\* the create that follows does not fail on a name conflict.
C5_MarkedLeftoversAreRemoved ==
    (cur.kind = "Network.start" /\ hist.foreign = {}) =>
        \A c \in Containers :
            <<"cont", c, "container name conflict">> \notin obs.fatal

\* C6: without an UnregisterAll in between, the first GetOrCreateSuite call for
\* a name (one that no aborted UnregisterAll has left registered) returns
\* existed = false, every later one returns the same suite with existed = true,
\* the registry holds one suite per name, and a call that finds the suite issues
\* no engine call and changes no suite, network or container.
C6_GetOrCreateSuiteIdempotent ==
    /\ [](/\ (cur.kind = "GetOrCreateSuite" /\ ~failed) =>
               /\ (cur.first /\ cur.name \notin hist.kept) => ~cur.existed
               /\ ~cur.first => cur.existed
               /\ cur.suite = hist.got[cur.name]
               /\ cur.suite \in Suites /\ suites[cur.suite].name = cur.name
               /\ registry[cur.name] = cur.suite
               /\ obs.calls = 0
           /\ \A n1, n2 \in SuiteNames :
               (registry[n1] # 0 /\ registry[n1] = registry[n2]) => n1 = n2)
    /\ [][(cur'.kind = "GetOrCreateSuite" /\ ops' # ops /\ cur'.existed) =>
              UNCHANGED <<registry, suites, net, cont, engine>>]_vars

\* a second call for a name that the first call registered
C6_Witness ==
    /\ cur.kind = "GetOrCreateSuite"
    /\ ~failed
    /\ ~cur.first
    /\ cur.existed
    /\ cur.name = "s2"
    /\ cur.suite = hist.got["s2"]

\* C7: a container whose health check never succeeds ends the start fatally
\* (the health check calls Fatalf and the container's start never returns), not
\* before its health check timeout has elapsed since the health check began, and
\* its children are never started.
C7_NeverHealthyFailsAtTimeout ==
    \A c \in Containers : cfg[c].hcNever =>
        /\ ~obs.healthy[c]
        /\ ~obs.ret[c]
        /\ \A k \in Kids(c) : ~obs.launched[k] /\ ~obs.began[k] /\ ~obs.resetRun[k]
        /\ HcFatal(c) => obs.clock[c] >= cfg[c].timeout
        /\ (obs.hcRun[c] /\ ~cur.active) => HcFatal(c) /\ failed

\* the start has ended in the health check's Fatalf
C7_Witness ==
    \E c \in Containers :
        /\ cfg[c].hcNever
        /\ cur.kind = "Network.start"
        /\ ~cur.active
        /\ HcFatal(c)
        /\ obs.polls[c] >= cfg[c].timeout - 1
        /\ Kids(c) # {}

\* C8: a predicate failing on its first k polls, k+1 polls fitting in the
\* timeout, is invoked exactly k+1 times, once per one-second tick and first
\* after the first tick; the children are not started and start does not return
\* before the successful invocation.
C8_PollsUntilSuccess ==
    \A c \in Containers :
        (~cfg[c].hcDefault /\ ~cfg[c].hcNever /\ cfg[c].hcFail + 1 < cfg[c].timeout) =>
            /\ ~HcFatal(c)
            /\ obs.polls[c] = obs.clock[c]
            /\ obs.polls[c] <= cfg[c].hcFail + 1
            /\ obs.healthy[c] <=> (obs.polls[c] = cfg[c].hcFail + 1)
            /\ obs.ret[c] => obs.healthy[c]
            /\ \A k \in Kids(c) :
                   (obs.launched[k] \/ obs.began[k] \/ obs.resetRun[k]) => obs.healthy[c]

\* the third poll succeeds and the child is started
C8_Witness ==
    \E c \in Containers :
        /\ cfg[c].hcFail = 2
        /\ ~cfg[c].hcDefault /\ ~cfg[c].hcNever
        /\ cur.kind = "Network.start"
        /\ obs.polls[c] = 3
        /\ obs.clock[c] = 3
        /\ \E k \in Kids(c) : obs.began[k]

\* C9: during reset the reset action of a child is never invoked before its
\* parent's reset action has returned without error and the parent's health
\* check after it has passed.
C9_ResetParentBeforeChild ==
    cur.kind = "Network.reset" =>
        \A p \in Containers : \A k \in Kids(p) :
            obs.resetRun[k] => obs.resetRun[p] /\ obs.resetOk[p] /\ obs.healthy[p]

\* the reset of the chain has reached the last container after a failed poll
C9_Witness ==
    /\ cur.kind = "Network.reset"
    /\ \E a, b \in Containers :
          /\ a \in Roots(cur.net)
          /\ Kids(a) # {}
          /\ \E m \in Kids(a) : b \in Kids(m) /\ obs.resetRun[b] /\ obs.polls[m] = 2

\* C10: in parallel mode Network.start fans the root containers out: while a
\* root container's start is under way, the start of every other root container
\* has been launched, so that their calls can come in either order.
C10_RootsFanOut ==
    (cur.kind = "Network.start" /\ ~SpawnSequential) =>
        \A x, y \in Roots(cur.net) :
            (obs.began[x] /\ ~obs.ret[x]) => obs.launched[y]

\* C11: in every mode the engine calls of one Container.start come in the order
\* image list, pull (exactly when no local image is listed or the pull is forced),
\* cleanup, create, process start, health check, children; a step that failed is
\* followed by no later step of that start
C11_StartCallsInFixedOrder ==
    /\ [](cur.kind = "Network.start" =>
           \A c \in Containers :
             /\ c \in obs.pulled => obs.began[c]
             /\ obs.cleaned[c] => obs.began[c]
             /\ obs.created[c] => obs.cleaned[c]
             /\ obs.started[c] => obs.created[c]
             /\ obs.hcRun[c] => obs.started[c]
             /\ \A k \in Kids(c) : obs.launched[k] => obs.healthy[c]
             /\ FatalOf(c, "image listing failure") =>
                  c \notin obs.pulled /\ ~obs.cleaned[c]
             /\ FatalOf(c, "image downloading failure") => ~obs.cleaned[c]
             /\ \/ FatalOf(c, "container listing failure")
                \/ FatalOf(c, "container removal failure")
                \/ FatalOf(c, "foreign container")
                => ~obs.created[c]
             /\ \/ FatalOf(c, "container creation failure")
                \/ FatalOf(c, "container name conflict")
                => ~obs.started[c]
             /\ FatalOf(c, "container start failure") => ~obs.hcRun[c]
             /\ FatalOf(c, "health check failure") =>
                  \A k \in Kids(c) : ~obs.launched[k])
    /\ [][\A c \in Containers :
            /\ (c \in obs'.pulled /\ c \notin obs.pulled) =>
                 ~obs.cleaned[c] /\ (c \notin engine.images \/ cfg[c].forcePull)
            /\ (obs'.cleaned[c] /\ ~obs.cleaned[c]) =>
                 /\ c \in engine.images
                 /\ cfg[c].forcePull => c \in obs.pulled]_vars

\* a forced pull was drained, the cleanup removed a leftover, and the container
\* was created, started, found healthy and its child launched, in parallel mode
C11_Witness ==
    /\ cur.kind = "Network.start" /\ ~SpawnSequential
    /\ \E c \in Containers :
         /\ c \in obs.pulled /\ obs.started[c] /\ obs.healthy[c]
         /\ \E k \in Kids(c) : obs.launched[k]
    /\ \E c \in Containers : FatalOf(c, "container start failure")

\* C12: once a node of a start (or close) call tree has hit a fatal condition, the
\* call tree issues no further engine call, in parallel mode too
C12_FatalStopsCallTree ==
    [][(failed /\ ops' = ops) => obs'.calls = obs.calls]_vars

\* C13: when UnregisterAll has returned the registry is empty, whether or not the
\* suites had a network, and the next GetOrCreateSuite of any name returns a new
\* instance with existed = false
C13_UnregisterAllEmptiesRegistry ==
    /\ (cur.kind = "UnregisterAll" /\ obs.done) =>
          \A nm \in SuiteNames : registry[nm] = 0
    /\ (cur.kind = "GetOrCreateSuite" /\ ~failed /\ hist.cleared /\ cur.first) =>
          ~cur.existed /\ cur.suite \notin hist.gone

\* UnregisterAll returned after unregistering a suite without a network, and the
\* suite's name was asked for again
C13_Witness ==
    /\ cur.kind = "GetOrCreateSuite" /\ ~failed /\ hist.cleared /\ cur.first
    /\ \E s \in hist.gone : suites[s].name = cur.name /\ suites[s].network = 0

\* C14: a teardown failure of one suite during UnregisterAll is only logged: the
\* close of every remaining suite is attempted and UnregisterAll runs to its end
C14_UnregisterAllRunsToItsEnd ==
    (cur.kind = "UnregisterAll" /\ ~cur.active /\ ~crashed) => obs.done

\* C15 as stated: on a suite without a network Suite.Start, Suite.Reset and
\* Suite.Close issue no engine call, change no suite or registry state, and Close
\* returns no error
C15_NoNetworkCallsAreNoOps ==
    /\ []((cur.kind \in Lifecycle /\ cur.net = 0) =>
            obs.calls = 0 /\ ~failed /\ ~crashed /\ \A t \in Tids : ~Running(t))
    /\ [][(cur'.kind \in Lifecycle /\ cur'.net = 0) =>
            UNCHANGED <<registry, suites, net, cont, engine>>]_vars

\* C15: on a suite without a network Suite.Start, Suite.Reset and Suite.Close
\* issue no engine call and change no registry state and no suite state, except
\* that Suite.Start makes the suite's log watcher when Verbose is set; Close
\* returns no error
C15_NoNetworkCallsKeepAllButLogWatcher ==
    /\ []((cur.kind \in Lifecycle /\ cur.net = 0) =>
            obs.calls = 0 /\ ~failed /\ ~crashed /\ \A t \in Tids : ~Running(t))
    /\ [][(cur'.kind \in Lifecycle /\ cur'.net = 0) =>
            /\ UNCHANGED <<registry, net, cont, engine>>
            /\ \A s \in SuiteIds :
                 /\ suites'[s].name = suites[s].name
                 /\ suites'[s].network = suites[s].network
                 /\ suites'[s].logWatcher # suites[s].logWatcher =>
                      cur'.kind = "Network.start" /\ s = cur'.suite /\ Verbose]_vars

\* Suite.Start has returned on a suite without a network, under Verbose
C15_Witness ==
    /\ cur.kind = "Network.start" /\ cur.net = 0 /\ ~cur.active
    /\ Verbose /\ suites[cur.suite].logWatcher

\* C16: Suite.Network issues no engine call; after several calls the suite refers
\* to the network of the last call only: Suite.Start creates and Suite.Close
\* removes that one network, and a replaced network object is never created at
\* engine level afterwards
C16_LastNetworkOnly ==
    /\ [](/\ cur.kind = "Suite.Network" =>
              obs.calls = 0 /\ suites[cur.suite].network = cur.net
          /\ cur.kind \in Lifecycle => cur.net = suites[cur.suite].network)
    /\ [][/\ cur'.kind = "Suite.Network" => UNCHANGED engine
          /\ \A n \in hist.replaced : net'[n] = net[n]
          /\ (cur.kind = "Network.start" /\ cur'.kind = "Network.start") =>
                \A e \in engine'.nets \ engine.nets :
                   /\ ~obs.netCreated
                   /\ e.name = net[suites[cur.suite].network].name
                   /\ e.id = net'[suites[cur.suite].network].id
          /\ (cur.kind = "Network.close" /\ cur'.kind = "Network.close") =>
                \A e \in engine.nets \ engine'.nets :
                   e.id = net[suites[cur.suite].network].id]_vars

\* after a second Suite.Network call the suite was started and closed: the last
\* network was created and removed at engine level
C16_Witness ==
    /\ cur.kind = "Network.close" /\ ~cur.active /\ ~failed
    /\ hist.replaced # {}
    /\ cur.net \in hist.closeOk
    /\ <<"net", cur.net>> \in obs.torn

\* C17: without a configured health check the protocol still polls after create
\* and after reset, and a poll succeeds exactly when the engine reports the
\* container as running, a failed inspect counting as not running
C17_DefaultHealthCheckIsRunning ==
    \A c \in Containers : cfg[c].hcDefault =>
       /\ obs.polls[c] > 0 =>
            (obs.healthy[c] <=> (~obs.probe[c].fail /\ obs.probe[c].running))
       /\ obs.polls[c] > 0 => obs.calls >= obs.polls[c]
       /\ cur.kind = "Network.start" =>
            ((obs.ret[c] \/ \E k \in Kids(c) : obs.launched[k]) =>
               obs.polls[c] > 0 /\ obs.healthy[c])
       /\ cur.kind = "Network.reset" =>
            ((\E k \in Kids(c) : obs.resetRun[k]) =>
               obs.polls[c] > 0 /\ obs.healthy[c])

\* a container without a configured health check failed its first poll because
\* the inspect failed, passed the second, and its child was launched
C17_Witness ==
    \E c \in Containers :
       /\ cfg[c].hcDefault /\ obs.polls[c] = 2 /\ obs.healthy[c]
       /\ \E k \in Kids(c) : obs.launched[k]

\* C18: without a configured reset action the reset of a container restarts it
\* through the engine and then runs the health check; the missing action causes
\* neither a failure nor a crash
C18_DefaultResetRestarts ==
    cur.kind = "Network.reset" =>
       /\ ~crashed
       /\ \A c \in Containers : (cfg[c].resetRestart /\ obs.resetRun[c]) =>
            /\ c \in obs.restarted
            /\ obs.resetOk[c] => obs.hcRun[c]
            /\ (\E k \in Kids(c) : obs.resetRun[k]) => obs.healthy[c]
            /\ FatalOf(c, "container reset failure") => ~obs.resetOk[c]
            /\ obs.resetOk[c] \/ FatalOf(c, "container reset failure")

\* a started container without a reset action was reset: restarted, found
\* healthy, and its child's reset was invoked
C18_Witness ==
    /\ cur.kind = "Network.reset"
    /\ \E c \in Containers :
         /\ cfg[c].resetRestart /\ c \in obs.restarted /\ obs.healthy[c]
         /\ \E k \in Kids(c) : obs.resetRun[k]

\* C19: the start of a container whose network reference is unset is fatal for
\* the start call, and no engine call is issued for that container or for any
\* container below it
C19_UnsetNetworkIsFatal ==
    cur.kind = "Network.start" =>
       \A c \in Containers : cont[c].network = 0 =>
          /\ \A k \in Below({c}, Cardinality(Containers)) :
               /\ ~obs.began[k] /\ k \notin obs.pulled /\ ~obs.cleaned[k]
               /\ ~obs.created[k] /\ ~obs.started[k] /\ ~obs.hcRun[k]
               /\ k # c => ~obs.launched[k]
          /\ ~obs.ret[c]
          /\ (obs.launched[c] /\ ~cur.active) =>
               failed /\ FatalOf(c, "not added to any network")

\* in parallel mode the start of a container without a network reference was
\* fatal while its sibling was started
C19_Witness ==
    /\ cur.kind = "Network.start" /\ ~cur.active /\ ~SpawnSequential
    /\ \E c \in Containers :
         /\ cont[c].network = 0 /\ obs.launched[c]
         /\ FatalOf(c, "not added to any network")
         /\ \E k \in Containers \ {c} : obs.launched[k] /\ obs.started[k]

\* C20: every network and every container created through the engine carries the
\* label owner=testingdock when it is created, and every remove issued by a
\* cleanup before a create targets a resource that carries the label
C20_OwnerLabel ==
    [][/\ \A e \in engine'.nets :
            e.id \notin {x.id : x \in engine.nets} => "owner=testingdock" \in e.labels
       /\ \A e \in engine'.conts :
            e.id \notin {x.id : x \in engine.conts} => "owner=testingdock" \in e.labels
       /\ \A id \in obs'.removed \ obs.removed :
            \/ \E e \in engine.nets : e.id = id /\ "owner=testingdock" \in e.labels
            \/ \E e \in engine.conts : e.id = id /\ "owner=testingdock" \in e.labels]_vars

\* a leftover with the label was removed by the cleanup and a container was
\* created with the label
C20_Witness ==
    /\ cur.kind = "Network.start"
    /\ obs.removed # {}
    /\ \E c \in Containers :
         /\ obs.created[c]
         /\ \E e \in engine.conts :
              e.id = cont[c].ID /\ "owner=testingdock" \in e.labels

\* C21: reset is never parallel: in both modes siblings are reset one at a time
\* in declaration order, and a sibling's reset action starts only after the whole
\* subtree of the sibling before it has been reset and health-checked
C21_ResetIsSequential ==
    cur.kind = "Network.reset" =>
       /\ \A t \in Containers : ~Running(t)
       /\ \A L \in ChildLists(cur.net) : \A i, j \in 1..Len(L) :
            (i < j /\ obs.resetRun[L[j]]) =>
               \A k \in Subtree(L[i]) : obs.resetRun[k] /\ obs.healthy[k]

\* in parallel mode two siblings were reset, one after the other
C21_Witness ==
    /\ cur.kind = "Network.reset" /\ ~SpawnSequential
    /\ \E L \in ChildLists(cur.net) :
         /\ Len(L) = 2 /\ obs.resetRun[L[1]] /\ obs.resetRun[L[2]]
         /\ obs.healthy[L[2]]

\* C22: when the reset action of a container returns an error or its health
\* check after the reset times out, the reset call is fatal at that node: no reset
\* action of a container later in the traversal is invoked
C22_ResetFailureHaltsTraversal ==
    /\ [](cur.kind = "Network.reset" =>
            \A c \in Containers :
               (FatalOf(c, "container reset failure") \/ HcFatal(c)) =>
                  /\ failed
                  /\ \A t \in Tids : ~Running(t)
                  /\ \A k \in Kids(c) : ~obs.resetRun[k]
                  /\ \A L \in ChildLists(cur.net) : \A i, j \in 1..Len(L) :
                       (i < j /\ c \in Subtree(L[i])) =>
                          \A k \in Subtree(L[j]) : ~obs.resetRun[k])
    /\ [][(cur.kind = "Network.reset" /\ failed /\ ops' = ops) =>
            obs'.resetRun = obs.resetRun]_vars

\* the reset action of a container with a child succeeded and its health check
\* timed out
C22_Witness ==
    /\ cur.kind = "Network.reset"
    /\ \E c \in Containers :
         obs.resetOk[c] /\ HcFatal(c) /\ Kids(c) # {}

\* C23: in parallel mode the start of a container does not return before every
\* start task of its children has terminated, and a Suite.Start that returns
\* normally returns with every container of the tree created, started and
\* health-checked
C23_ParallelStartJoins ==
    (cur.kind = "Network.start" /\ ~SpawnSequential) =>
       /\ \A c \in Containers : obs.ret[c] => \A k \in Kids(c) : ~Running(k)
       /\ obs.returned =>
            \A c \in Tree(cur.net) :
               obs.created[c] /\ obs.started[c] /\ obs.healthy[c]

\* C24: in sequential mode the containers of a tree are started one at a time in
\* depth-first pre-order along the declaration order: at most one container is
\* between the beginning of its start and the success of its health check, and
\* a sibling starts only after the whole subtree of the sibling before it has
\* started
C24_SequentialStartIsPreOrder ==
    (cur.kind = "Network.start" /\ SpawnSequential) =>
       /\ \A t \in Containers : ~Running(t)
       /\ Cardinality({c \in Containers : obs.launched[c] /\ ~obs.healthy[c]}) <= 1
       /\ \A c \in Containers : \A k \in Kids(c) : obs.launched[k] => obs.healthy[c]
       /\ \A L \in ChildLists(cur.net) : \A i, j \in 1..Len(L) :
            (i < j /\ obs.launched[L[j]]) =>
               \A k \in Subtree(L[i]) :
                  obs.launched[k] /\ obs.healthy[k] /\ obs.ret[k]

\* in sequential mode a container with a child and then its sibling were started
C24_Witness ==
    /\ cur.kind = "Network.start" /\ SpawnSequential
    /\ \E L \in ChildLists(cur.net) :
         /\ Len(L) = 2 /\ Kids(L[1]) # {}
         /\ obs.healthy[L[2]] /\ obs.ret[L[2]]

\* C25: in parallel mode close fans out over siblings at every level of the
\* tree: while the close of a node is under way the close of each of its siblings
\* has been launched, so that their teardowns can come in either order
C25_CloseFansOut ==
    (cur.kind = "Network.close" /\ ~SpawnSequential) =>
       \A L \in ChildLists(cur.net) : \A i, j \in 1..Len(L) :
          obs.closing[L[i]] = "in" => obs.closing[L[j]] # "none"

\* C26: a start call that fails removes no resource that it has created (no
\* rollback); in particular the network it created stays in the engine when a
\* later step of Network.start, such as the inspect, fails
C26_NoRollback ==
    [][(cur.kind = "Network.start" /\ ops' = ops /\ failed') =>
         /\ \A e \in engine.nets :
              (obs.netCreated /\ e.id = net[cur.net].id) =>
                 \E x \in engine'.nets : x.id = e.id
         /\ \A e \in engine.conts : \A c \in Containers :
              (obs.created[c] /\ e.id = cont[c].ID) =>
                 \E x \in engine'.conts : x.id = e.id]_vars

\* C30: when a start aborts with an ownership violation, no resource, marked or
\* not, has been removed from the engine before the abort
C30_OwnershipAbortRemovesNothing ==
    cur.kind = "Network.start" =>
       ((\E x \in obs.fatal : x[3] \in {"foreign container", "foreign network"}) =>
          obs.removed = {})

\* C27: whatever the order of the After calls that build the tree, every
\* container reachable from network N has its network reference equal to N when
\* N is started
C27_TreeSharesNetwork ==
    cur.kind = "Network.start" =>
       \A c \in Tree(cur.net) : cont[c].network = cur.net

\* C28: after any sequence of After calls the structure is a forest: every
\* container has one parent at most and is below no container twice, an After
\* call that would break this being rejected
C28_AfterKeepsForest == IsForest

\* C29: once start has been invoked on a network, an After call on the network
\* or on a container of its tree adds no edge
C29_NoEdgeAfterStart ==
    [][\A n \in hist.invoked :
          /\ net'[n].children = net[n].children
          /\ \A c \in Tree(n) : cont'[c].children = cont[c].children]_vars

\* C31: close is safe on nodes that never registered a teardown action (a network
\* that was never started, a container whose start never reached the create
\* step): it issues no engine call for them, does not crash, and when it has
\* returned the nodes that were started are torn down
C31_CloseSafeWithoutTeardown ==
    cur.kind \in {"Network.close", "UnregisterAll"} =>
       /\ ~crashed
       /\ \A c \in Containers : ~cont[c].cancel => <<"cont", c>> \notin obs.torn
       /\ \A n \in NetObjs : ~net[n].cancel => <<"net", n>> \notin obs.torn
       /\ (cur.kind = "Network.close" /\ cur.net # 0 /\ ~cur.active /\ ~failed) =>
             /\ net[cur.net].cancel => net[cur.net].closed
             /\ \A c \in Tree(cur.net) : cont[c].cancel => cont[c].closed

\* the engine resources made by a start of network n that are still there
Remaining(n) ==
    {e.id : e \in {x \in engine.nets : net[n].cancel /\ x.id = net[n].id}}
    \cup {e.id : e \in {x \in engine.conts :
                          \E c \in Tree(n) : cont[c].cancel /\ x.id = cont[c].ID}}

\* C32: for any sequence of start and close calls on one network, start, close,
\* start, close included, no engine resource made by an earlier start of the
\* network remains when a close has returned: the closed flag, which is never
\* reset, does not stop the teardown of what a start after a close has made
C32_CloseAfterRestartTearsDown ==
    (cur.kind = "Network.close" /\ cur.net # 0 /\ ~cur.active /\ ~crashed /\ ~failed)
        => Remaining(cur.net) = {}

\* C33: a close of a started network leaves none of the resources the start made,
\* whether or not the ctx that was passed to the start has since been cancelled
\* or has expired: unless the engine itself fails a call, the teardown goes
\* through
C33_CloseIgnoresStartContext ==
    (/\ cur.kind = "Network.close" /\ cur.net \in hist.startOk /\ ~cur.again
     /\ ~cur.active /\ ~crashed
     /\ \A x \in obs.fatal : x[3] = "context canceled")
        => Remaining(cur.net) = {}

\* the engine ids of what the last start of network n made
MadeBy(n) ==
    {net[n].id : x \in {y \in {n} : net[y].cancel}}
    \cup {cont[c].ID : c \in {d \in Tree(n) : cont[d].cancel}}

\* the networks of the registered suites other than s that are started and not
\* yet closed
StartedElsewhere(s) ==
    {suites[u].network : u \in {v \in Suites : v # s /\ registry[suites[v].name] = v}}
       \cap (hist.startOk \ hist.closeOk)

\* C34: the start of one suite removes no engine resource made by another
\* registered suite that is started and not yet closed, also when both suites
\* use the same network name or container name
C34_StartSparesOtherSuites ==
    cur.kind = "Network.start" =>
       \A n \in StartedElsewhere(cur.suite) \ {cur.net} : obs.removed \cap MadeBy(n) = {}

\* what the concurrent calls of GetOrCreateSuite returned
RetSuites == {r[2] : r \in obs.rets}
RetCreated == {r \in obs.rets : ~r[3]}

\* C35: when GetOrCreateSuite is called by several tasks at the same time with
\* one name, exactly one call returns existed = false (none if the name was
\* registered before), all calls return the same suite, and the registry ends
\* with that suite as its one entry for the name
C35_ConcurrentGetOrCreateSuite ==
    cur.kind = "GetOrCreateSuite.tasks" =>
       /\ ~crashed
       /\ ~cur.active =>
             /\ Cardinality(RetCreated) = (IF cur.existed THEN 0 ELSE 1)
             /\ Cardinality(RetSuites) = 1
             /\ RetSuites = {registry[cur.name]}

====
